---- MODULE Spec2Model ----
(***************************************************************************)
(* Model of the Kremis graph engine (crates/kremis-core/src/graph.rs).     *)
(*                                                                         *)
(* The Graph is four fields: three BTreeMaps (nodes, edges, entity_index)  *)
(* and the next_node_id counter.  A BTreeMap is modelled as the sequence   *)
(* of its <<key, value>> entries in the order its iterator yields them;    *)
(* BTreeInsert places an entry the way the ordered map does.               *)
(*                                                                         *)
(* Machine integers are scaled: u64 is 0..U64_MAX and i64 is               *)
(* I64_MIN..I64_MAX for small U64_MAX and I64_MAX, with the saturating     *)
(* operations of the source computed against these limits.  Where the     *)
(* source multiplies a counter by 100 or subtracts an edge weight from    *)
(* i64::MAX, the limit is the wider U64_WIDE_MAX or I64_WIDE_MAX.  The    *)
(* counters of hit_rate_percent are counted in units of u64::MAX / 65535. *)
(* Option<T> is a sequence: <<>> is None and <<v>> is Some(v).             *)
(***************************************************************************)
EXTENDS Integers, Sequences, FiniteSets, TLC

\* ---------------------------------------------------------------- bounds
\* u64::MAX, scaled (NodeId and next_node_id range over 0..U64_MAX)
U64_MAX == 3

\* i64::MAX, scaled (EdgeWeight ranges over I64_MIN..I64_MAX)
I64_MAX == 2

\* EntityIds offered to insert_node / import_node are 0..MaxEntity
MaxEntity == 1

\* The mutating actions stop adding edges once this many are stored
MaxEdges == 2

\* primitives::MAX_TRAVERSAL_DEPTH, scaled so that the cap is met by the
\* graphs the model can build
MAX_TRAVERSAL_DEPTH == 2

\* The graphs the queries run on are built by at most this many
\* increment_edge calls
MaxQueryEdges == 3

\* The graphs traverse_dfs is compared with traverse on are built by at most
\* this many increment_edge calls
MaxDfsEdges == 4

\* intersect is offered slices of at most this many NodeIds
MaxIntersectLen == 2

\* The graphs strongest_path runs on hold at most this many edges
MaxPathEdges == 4

I64_MIN == (0 - I64_MAX) - 1

NodeIds == 0..U64_MAX

EntityIds == 0..MaxEntity

\* NodeIds the edge claims range over: ids that insert_node allocates first,
\* so each is allocated in some states and was never allocated in others
NodeIdArgs == {0, 1, 2}

\* NodeId arguments offered to import_node: the first id insert_node
\* allocates, and the greatest id
ImportIds == {0, 1, U64_MAX}

\* `from` arguments offered to insert_edge / increment_edge by the actions
FromArgs == {0, 1}

\* `to` arguments offered to insert_edge / increment_edge by the actions: with
\* FromArgs they give a self-loop, two edges out of one node, and an endpoint
\* that is missing until a third node is inserted
ToArgs == {1, 2}

\* EdgeWeight arguments offered to insert_edge
Weights == {-1, 1}

\* Arguments offered to the queries: four ids, of which the last has no
\* out-edges in the graphs the queries run on
QueryNodeIds == {0, 1, 2, 3}

QueryFromArgs == {0, 1, 2}

\* start arguments offered to the traversals
QueryStarts == {0, 2}

\* number of nodes of the graphs the queries run on
QueryNodeCounts == {0, 2, 4}

\* min_weight arguments offered to traverse_filtered
MinWeights == {1, 2}

\* depth arguments offered to the traversals (beyond the cap included)
Depths == 0..(MAX_TRAVERSAL_DEPTH + 1)

\* ---------------------------------------------------------------- Option
None == <<>>

Some(v) == <<v>>

\* ---------------------------------------------------------------- BTreeMap
\* BTreeMap::new()
BTreeEmpty == <<>>

\* BTreeMap::contains_key
BTreeHas(m, k) == \E i \in 1..Len(m) : m[i][1] = k

\* BTreeMap::get(k), for a key that is present
BTreeGet(m, k) == m[CHOOSE i \in 1..Len(m) : m[i][1] = k][2]

\* BTreeMap::insert as an unordered map would do it: a new key goes last
RECURSIVE BTreeInsertAppend(_, _, _)
BTreeInsertAppend(m, k, v) ==
    IF m = <<>> THEN << <<k, v>> >>
    ELSE IF Head(m)[1] = k THEN << <<k, v>> >> \o Tail(m)
    ELSE <<Head(m)>> \o BTreeInsertAppend(Tail(m), k, v)

\* BTreeMap::insert: replaces the value of a present key, otherwise places
\* the entry before the first greater key
RECURSIVE BTreeInsert(_, _, _)
BTreeInsert(m, k, v) ==
    IF m = <<>> THEN << <<k, v>> >>
    ELSE IF Head(m)[1] = k THEN << <<k, v>> >> \o Tail(m)
    ELSE IF Head(m)[1] > k THEN << <<k, v>> >> \o m
    ELSE <<Head(m)>> \o BTreeInsert(Tail(m), k, v)

\* BTreeMap::keys() / iteration order
BTreeKeys(m) == [i \in 1..Len(m) |-> m[i][1]]

\* BTreeMap::values()
BTreeValues(m) == [i \in 1..Len(m) |-> m[i][2]]

\* BTreeMap::len()
BTreeLen(m) == Len(m)

\* ---------------------------------------------------------------- primitives
\* Node::new(id, entity)
Node(id, entity) == [id |-> id, entity |-> entity]

\* u64::saturating_add(x, 1)
U64SatInc(x) == IF x >= U64_MAX THEN U64_MAX ELSE x + 1

\* EdgeWeight::increment: saturating_add(1) on i64
EdgeWeightIncrement(w) == IF w >= I64_MAX THEN I64_MAX ELSE w + 1

\* Artifact::with_subgraph(path, subgraph)
Artifact(path, subgraph) == [path |-> path, subgraph |-> subgraph]

\* ---------------------------------------------------------------- Graph
\* Graph::new() / Graph::default()
GraphNew ==
    [nodes |-> BTreeEmpty, edges |-> BTreeEmpty,
     entity_index |-> BTreeEmpty, next_node_id |-> 0]

\* Graph::contains_node
contains_node(g, id) == BTreeHas(g.nodes, id)

\* Graph::lookup
lookup(g, id) == IF BTreeHas(g.nodes, id) THEN Some(BTreeGet(g.nodes, id)) ELSE None

\* Graph::get_node_by_entity
get_node_by_entity(g, entity) ==
    IF BTreeHas(g.entity_index, entity)
    THEN Some(BTreeGet(g.entity_index, entity)) ELSE None

\* Graph::get_edge
get_edge(g, from, to) ==
    IF ~BTreeHas(g.edges, from) THEN None
    ELSE LET targets == BTreeGet(g.edges, from)
         IN IF BTreeHas(targets, to) THEN Some(BTreeGet(targets, to)) ELSE None

\* Graph::contains_edge
contains_edge(g, from, to) ==
    BTreeHas(g.edges, from) /\ BTreeHas(BTreeGet(g.edges, from), to)

\* Graph::neighbors: the (target, weight) entries of the adjacency map of
\* node, in the map's iteration order; empty when node has no adjacency map
neighbors(g, node) ==
    IF BTreeHas(g.edges, node) THEN BTreeGet(g.edges, node) ELSE <<>>

\* Graph::edges(): flat_map over the outer map, then over each inner map
RECURSIVE EdgesFlat(_)
EdgesFlat(m) ==
    IF m = <<>> THEN <<>>
    ELSE [i \in 1..Len(Head(m)[2]) |->
            <<Head(m)[1], Head(m)[2][i][1], Head(m)[2][i][2]>>]
         \o EdgesFlat(Tail(m))

graph_edges(g) == EdgesFlat(g.edges)

\* Graph::nodes(): the node table's values in key order
graph_nodes(g) == BTreeValues(g.nodes)

\* Graph::node_count
node_count(g) == BTreeLen(g.nodes)

\* Graph::edge_count: sum of the inner maps' lengths
RECURSIVE SumLens(_)
SumLens(m) == IF m = <<>> THEN 0 ELSE BTreeLen(Head(m)[2]) + SumLens(Tail(m))

edge_count(g) == SumLens(g.edges)

\* Graph::import_node
import_node(g, node) ==
    LET nxt == IF node.id >= g.next_node_id
               THEN U64SatInc(node.id) ELSE g.next_node_id
    IN [g EXCEPT !.next_node_id = nxt,
                 !.entity_index = BTreeInsert(g.entity_index, node.entity, node.id),
                 !.nodes = BTreeInsert(g.nodes, node.id, node)]

\* Graph::insert_node: the graph afterwards and the NodeId returned
insert_node(g, entity) ==
    IF BTreeHas(g.entity_index, entity)
    THEN [g |-> g, ret |-> BTreeGet(g.entity_index, entity)]
    ELSE LET node_id == g.next_node_id
         IN [g |-> [g EXCEPT !.next_node_id = U64SatInc(g.next_node_id),
                            !.nodes = BTreeInsert(g.nodes, node_id, Node(node_id, entity)),
                            !.entity_index = BTreeInsert(g.entity_index, entity, node_id)],
             ret |-> node_id]

\* self.edges.entry(from).or_default()
EdgesEntry(g, from) ==
    IF BTreeHas(g.edges, from) THEN BTreeGet(g.edges, from) ELSE BTreeEmpty

\* insert_edge that adds the weight to the one already stored
insert_edge_adds(g, from, to, weight) ==
    IF ~BTreeHas(g.nodes, from) \/ ~BTreeHas(g.nodes, to) THEN g
    ELSE LET targets == EdgesEntry(g, from)
             current == IF BTreeHas(targets, to) THEN BTreeGet(targets, to) ELSE 0
         IN [g EXCEPT !.edges =
                BTreeInsert(g.edges, from, BTreeInsert(targets, to, current + weight))]

\* Graph::insert_edge
insert_edge(g, from, to, weight) ==
    IF ~BTreeHas(g.nodes, from) \/ ~BTreeHas(g.nodes, to) THEN g
    ELSE [g EXCEPT !.edges =
            BTreeInsert(g.edges, from, BTreeInsert(EdgesEntry(g, from), to, weight))]

\* increment_edge that takes a missing edge to weigh 1 already
increment_edge_from_one(g, from, to) ==
    LET targets == EdgesEntry(g, from)
        current == IF BTreeHas(targets, to) THEN BTreeGet(targets, to) ELSE 1
    IN [g EXCEPT !.edges =
            BTreeInsert(g.edges, from,
                        BTreeInsert(targets, to, EdgeWeightIncrement(current)))]

\* Graph::increment_edge
increment_edge(g, from, to) ==
    LET targets == EdgesEntry(g, from)
        current == IF BTreeHas(targets, to) THEN BTreeGet(targets, to) ELSE 0
    IN [g EXCEPT !.edges =
            BTreeInsert(g.edges, from,
                        BTreeInsert(targets, to, EdgeWeightIncrement(current)))]

\* ---------------------------------------------------------------- traversal
\* a minimum that always takes its left argument
MinLeft(a, b) == a

\* usize::min
Min(a, b) == IF a <= b THEN a ELSE b

\* the for loop of traverse without the test of the visited set
RECURSIVE traverse_for_revisits(_, _, _, _)
traverse_for_revisits(nbrs, current, current_depth, st) ==
    IF nbrs = <<>> THEN st
    ELSE LET neighbor == Head(nbrs)[1]
             weight == Head(nbrs)[2]
             st1 == [st EXCEPT !.subgraph_edges = Append(@, <<current, neighbor, weight>>)]
             st2 == [st1 EXCEPT !.visited = @ \cup {neighbor},
                                !.queue = Append(@, <<neighbor, current_depth + 1>>)]
         IN traverse_for_revisits(Tail(nbrs), current, current_depth, st2)

\* the for loop of traverse recording only the edges to nodes not yet visited
RECURSIVE traverse_for_new_only(_, _, _, _)
traverse_for_new_only(nbrs, current, current_depth, st) ==
    IF nbrs = <<>> THEN st
    ELSE LET neighbor == Head(nbrs)[1]
             weight == Head(nbrs)[2]
             st2 == IF neighbor \notin st.visited
                    THEN [st EXCEPT !.subgraph_edges = Append(@, <<current, neighbor, weight>>),
                                    !.visited = @ \cup {neighbor},
                                    !.queue = Append(@, <<neighbor, current_depth + 1>>)]
                    ELSE st
         IN traverse_for_new_only(Tail(nbrs), current, current_depth, st2)

\* Graph::traverse, the body of `for (neighbor, weight) in self.neighbors(current)`
RECURSIVE traverse_for(_, _, _, _)
traverse_for(nbrs, current, current_depth, st) ==
    IF nbrs = <<>> THEN st
    ELSE LET neighbor == Head(nbrs)[1]
             weight == Head(nbrs)[2]
             st1 == [st EXCEPT !.subgraph_edges = Append(@, <<current, neighbor, weight>>)]
             st2 == IF neighbor \notin st1.visited
                    THEN [st1 EXCEPT !.visited = @ \cup {neighbor},
                                     !.queue = Append(@, <<neighbor, current_depth + 1>>)]
                    ELSE st1
         IN traverse_for(Tail(nbrs), current, current_depth, st2)

\* Graph::traverse, `while let Some((current, current_depth)) = queue.pop_front()`
RECURSIVE traverse_while(_, _, _)
traverse_while(g, depth, st) ==
    IF st.queue = <<>> THEN st
    ELSE LET current == Head(st.queue)[1]
             current_depth == Head(st.queue)[2]
             st1 == [st EXCEPT !.queue = Tail(@), !.path = Append(@, current)]
         IN IF current_depth >= depth
            THEN traverse_while(g, depth, st1)
            ELSE traverse_while(g, depth,
                     traverse_for(neighbors(g, current), current, current_depth, st1))

\* the locals of traverse before its loop
TraverseStart(start) ==
    [visited |-> {start}, queue |-> << <<start, 0>> >>,
     path |-> <<>>, subgraph_edges |-> <<>>]

\* traverse without the test that start exists
traverse_unchecked(g, start, depth) ==
    LET d == Min(depth, MAX_TRAVERSAL_DEPTH)
        st == traverse_while(g, d, TraverseStart(start))
    IN Some(Artifact(st.path, st.subgraph_edges))

\* Graph::traverse
traverse(g, start, depth) ==
    LET d == Min(depth, MAX_TRAVERSAL_DEPTH)
    IN IF ~contains_node(g, start) THEN None
       ELSE LET st == traverse_while(g, d, TraverseStart(start))
            IN Some(Artifact(st.path, st.subgraph_edges))

\* the for loop of traverse_filtered keeping only the edges heavier than
\* min_weight
RECURSIVE traverse_filtered_for_strict(_, _, _, _, _)
traverse_filtered_for_strict(nbrs, current, current_depth, min_weight, st) ==
    IF nbrs = <<>> THEN st
    ELSE LET neighbor == Head(nbrs)[1]
             weight == Head(nbrs)[2]
             st1 == [st EXCEPT !.subgraph_edges = Append(@, <<current, neighbor, weight>>)]
             st2 == IF neighbor \notin st1.visited
                    THEN [st1 EXCEPT !.visited = @ \cup {neighbor},
                                     !.queue = Append(@, <<neighbor, current_depth + 1>>)]
                    ELSE st1
         IN traverse_filtered_for_strict(Tail(nbrs), current, current_depth, min_weight,
                                         IF weight > min_weight THEN st2 ELSE st)

\* Graph::traverse_filtered, the body of its for loop
RECURSIVE traverse_filtered_for(_, _, _, _, _)
traverse_filtered_for(nbrs, current, current_depth, min_weight, st) ==
    IF nbrs = <<>> THEN st
    ELSE LET neighbor == Head(nbrs)[1]
             weight == Head(nbrs)[2]
             st1 == [st EXCEPT !.subgraph_edges = Append(@, <<current, neighbor, weight>>)]
             st2 == IF neighbor \notin st1.visited
                    THEN [st1 EXCEPT !.visited = @ \cup {neighbor},
                                     !.queue = Append(@, <<neighbor, current_depth + 1>>)]
                    ELSE st1
         IN traverse_filtered_for(Tail(nbrs), current, current_depth, min_weight,
                                  IF weight >= min_weight THEN st2 ELSE st)

\* Graph::traverse_filtered, its while loop
RECURSIVE traverse_filtered_while(_, _, _, _)
traverse_filtered_while(g, depth, min_weight, st) ==
    IF st.queue = <<>> THEN st
    ELSE LET current == Head(st.queue)[1]
             current_depth == Head(st.queue)[2]
             st1 == [st EXCEPT !.queue = Tail(@), !.path = Append(@, current)]
         IN IF current_depth >= depth
            THEN traverse_filtered_while(g, depth, min_weight, st1)
            ELSE traverse_filtered_while(g, depth, min_weight,
                     traverse_filtered_for(neighbors(g, current), current,
                                           current_depth, min_weight, st1))

\* Graph::traverse_filtered
traverse_filtered(g, start, depth, min_weight) ==
    LET d == Min(depth, MAX_TRAVERSAL_DEPTH)
    IN IF ~contains_node(g, start) THEN None
       ELSE LET st == traverse_filtered_while(g, d, min_weight, TraverseStart(start))
            IN Some(Artifact(st.path, st.subgraph_edges))

\* Graph::dfs_recursive; dfs_for is the body of its for loop
RECURSIVE dfs_recursive(_, _, _, _, _)
RECURSIVE dfs_for(_, _, _, _, _, _)
dfs_for(g, nbrs, current, current_depth, max_depth, st) ==
    IF nbrs = <<>> THEN st
    ELSE LET neighbor == Head(nbrs)[1]
             weight == Head(nbrs)[2]
             st1 == [st EXCEPT !.subgraph_edges = Append(@, <<current, neighbor, weight>>)]
             st2 == IF neighbor \notin st1.visited
                    THEN dfs_recursive(g, neighbor, current_depth + 1, max_depth, st1)
                    ELSE st1
         IN dfs_for(g, Tail(nbrs), current, current_depth, max_depth, st2)

dfs_recursive(g, current, current_depth, max_depth, st) ==
    IF current \in st.visited \/ current_depth > max_depth THEN st
    ELSE LET st1 == [st EXCEPT !.visited = @ \cup {current},
                               !.path = Append(@, current)]
         IN IF current_depth < max_depth
            THEN dfs_for(g, neighbors(g, current), current, current_depth, max_depth, st1)
            ELSE st1

\* Graph::traverse_dfs
traverse_dfs(g, start, depth) ==
    IF ~contains_node(g, start) THEN None
    ELSE LET bounded_depth == Min(depth, MAX_TRAVERSAL_DEPTH)
             st == dfs_recursive(g, start, 0, bounded_depth,
                                 [visited |-> {}, path |-> <<>>, subgraph_edges |-> <<>>])
         IN Some(Artifact(st.path, st.subgraph_edges))

\* related_subgraph that delegates to the depth-first traversal
related_subgraph_dfs(g, start, depth) == traverse_dfs(g, start, depth)

\* Graph::related_subgraph
related_subgraph(g, start, depth) == traverse(g, start, depth)

\* Compositor::related_context
related_context(g, start, depth) == related_subgraph(g, start, depth)

\* ---------------------------------------------------------------- serialization
\* From<&Graph> for SerializableGraph
ToSerializable(g) ==
    [nodes |-> graph_nodes(g), edges |-> graph_edges(g), next_node_id |-> g.next_node_id]

\* From<SerializableGraph> for Graph, `for node in sg.nodes`
RECURSIVE FromSerializableNodes(_, _)
FromSerializableNodes(g, ns) ==
    IF ns = <<>> THEN g
    ELSE FromSerializableNodes(
             [g EXCEPT !.nodes = BTreeInsert(@, Head(ns).id, Head(ns)),
                       !.entity_index = BTreeInsert(@, Head(ns).entity, Head(ns).id)],
             Tail(ns))

\* From<SerializableGraph> for Graph, `for (from, to, weight) in sg.edges`
RECURSIVE FromSerializableEdges(_, _)
FromSerializableEdges(g, es) ==
    IF es = <<>> THEN g
    ELSE FromSerializableEdges(insert_edge(g, Head(es)[1], Head(es)[2], Head(es)[3]),
                               Tail(es))

\* From<SerializableGraph> for Graph
FromSerializable(sg) ==
    FromSerializableEdges(
        FromSerializableNodes([GraphNew EXCEPT !.next_node_id = sg.next_node_id], sg.nodes),
        sg.edges)

\* export::CanonicalGraph of a graph: its nodes as (id, entity) in NodeId
\* order, its edges as (from, to, weight) in (from, to) order, and the counter
ToCanonical(g) ==
    [nodes |-> [i \in 1..Len(graph_nodes(g)) |->
                   [id |-> graph_nodes(g)[i].id, entity |-> graph_nodes(g)[i].entity]],
     edges |-> [i \in 1..Len(graph_edges(g)) |->
                   [from |-> graph_edges(g)[i][1], to |-> graph_edges(g)[i][2],
                    weight |-> graph_edges(g)[i][3]]],
     next_node_id |-> g.next_node_id]

\* Graph::from_canonical, `for cn in &canonical.nodes`
RECURSIVE from_canonical_nodes(_, _)
from_canonical_nodes(g, cns) ==
    IF cns = <<>> THEN g
    ELSE LET node_id == Head(cns).id
             entity == Head(cns).entity
         IN from_canonical_nodes(
                [g EXCEPT !.nodes = BTreeInsert(@, node_id, Node(node_id, entity)),
                          !.entity_index = BTreeInsert(@, entity, node_id)],
                Tail(cns))

\* Graph::from_canonical, `for ce in &canonical.edges`
RECURSIVE from_canonical_edges(_, _)
from_canonical_edges(g, ces) ==
    IF ces = <<>> THEN g
    ELSE LET from == Head(ces).from
             to == Head(ces).to
             g1 == IF BTreeHas(g.nodes, from) /\ BTreeHas(g.nodes, to)
                   THEN [g EXCEPT !.edges =
                            BTreeInsert(@, from,
                                BTreeInsert(EdgesEntry(g, from), to, Head(ces).weight))]
                   ELSE g
         IN from_canonical_edges(g1, Tail(ces))

\* Graph::from_canonical
from_canonical(canonical) ==
    from_canonical_edges(
        from_canonical_nodes([GraphNew EXCEPT !.next_node_id = canonical.next_node_id],
                             canonical.nodes),
        canonical.edges)

\* ---------------------------------------------------------------- cache
\* Default maximum cache size
DEFAULT_CACHE_SIZE == 1000

\* Default number of entries evicted at once
DEFAULT_EVICTION_BATCH == 100

\* usize::max
Max(a, b) == IF a >= b THEN a ELSE b

\* u64::MAX for the arithmetic of hit_rate_percent, counted in units of
\* u64::MAX / 65535 = 281479271743489.  65535 divides u64::MAX = 2^64 - 1, so
\* on counters that are whole units the saturating sum, the saturating
\* product and the quotient of the source are the ones computed here; a
\* counter up to 655 units has a hundredfold that fits, a larger one has not
U64_WIDE_MAX == 65535

\* u64::saturating_add, on the scale of U64_WIDE_MAX
U64SatAdd(a, b) == IF a + b > U64_WIDE_MAX THEN U64_WIDE_MAX ELSE a + b

\* u64::saturating_mul, on the scale of U64_WIDE_MAX
U64SatMul(a, b) == IF a * b > U64_WIDE_MAX THEN U64_WIDE_MAX ELSE a * b

\* BTreeMap::remove
BTreeRemove(m, k) == SelectSeq(m, LAMBDA e : e[1] # k)

\* CacheEntry::new
CacheEntryNew(value, timestamp) ==
    [value |-> value, last_access |-> timestamp, access_count |-> 1]

\* CacheEntry::touch
touch(entry, timestamp) ==
    [entry EXCEPT !.last_access = timestamp, !.access_count = U64SatInc(@)]

\* a constructor that takes the size as given
LruCacheNewUnclamped(max_size) ==
    [entries |-> BTreeEmpty,
     max_size |-> max_size,
     eviction_batch |-> DEFAULT_EVICTION_BATCH,
     logical_clock |-> 0,
     hits |-> 0,
     misses |-> 0]

\* LruCache::new
LruCacheNew(max_size) ==
    [entries |-> BTreeEmpty,
     max_size |-> Max(max_size, 1),
     eviction_batch |-> DEFAULT_EVICTION_BATCH,
     logical_clock |-> 0,
     hits |-> 0,
     misses |-> 0]

\* LruCache::with_eviction_batch
with_eviction_batch(c, batch_size) ==
    [c EXCEPT !.eviction_batch = Max(batch_size, 1)]

\* a get that ticks the clock on a hit only
get_ticking_on_hit(c, key) ==
    IF BTreeHas(c.entries, key)
    THEN LET timestamp == U64SatInc(c.logical_clock)
             entry == touch(BTreeGet(c.entries, key), timestamp)
         IN [cache |-> [c EXCEPT !.logical_clock = timestamp,
                                 !.entries = BTreeInsert(@, key, entry),
                                 !.hits = U64SatInc(@)],
             ret |-> Some(entry.value)]
    ELSE [cache |-> [c EXCEPT !.misses = U64SatInc(@)], ret |-> None]

\* a get that returns the value and counts the hit or miss, and leaves the
\* entry as it was
get_without_touch(c, key) ==
    LET ticked == [c EXCEPT !.logical_clock = U64SatInc(@)]
    IN IF BTreeHas(c.entries, key)
       THEN [cache |-> [ticked EXCEPT !.hits = U64SatInc(@)],
             ret |-> Some(BTreeGet(c.entries, key).value)]
       ELSE [cache |-> [ticked EXCEPT !.misses = U64SatInc(@)], ret |-> None]

\* LruCache::get: the cache after the call and the value returned
get(c, key) ==
    LET timestamp == U64SatInc(c.logical_clock)
        ticked == [c EXCEPT !.logical_clock = timestamp]
    IN IF BTreeHas(c.entries, key)
       THEN LET entry == touch(BTreeGet(c.entries, key), timestamp)
            IN [cache |-> [ticked EXCEPT !.entries = BTreeInsert(@, key, entry),
                                         !.hits = U64SatInc(@)],
                ret |-> Some(entry.value)]
       ELSE [cache |-> [ticked EXCEPT !.misses = U64SatInc(@)], ret |-> None]

\* LruCache::peek
peek(c, key) ==
    IF BTreeHas(c.entries, key) THEN Some(BTreeGet(c.entries, key).value) ELSE None

\* a grouping that puts every key into one group, whatever its last_access
by_access_one_group(entries, i, by_access) ==
    IF entries = <<>> THEN BTreeEmpty ELSE << <<0, BTreeKeys(entries)>> >>

\* LruCache::evict, the first loop: group the keys by last_access, the keys
\* of a group in the order of the entries
RECURSIVE by_access_for(_, _, _)
by_access_for(entries, i, by_access) ==
    IF i > Len(entries) THEN by_access
    ELSE LET key == entries[i][1]
             last_access == entries[i][2].last_access
             keys_ == IF BTreeHas(by_access, last_access)
                      THEN BTreeGet(by_access, last_access) ELSE <<>>
         IN by_access_for(entries, i + 1,
                          BTreeInsert(by_access, last_access, Append(keys_, key)))

\* the keys of by_access in the order the second loop meets them
RECURSIVE EvictionOrder(_)
EvictionOrder(by_access) ==
    IF by_access = <<>> THEN <<>>
    ELSE Head(by_access)[2] \o EvictionOrder(Tail(by_access))

\* LruCache::evict, the second loop: remove key after key until to_evict
\* entries are gone
RECURSIVE evict_for(_, _, _, _, _)
evict_for(entries, order, i, evicted, to_evict) ==
    IF i > Len(order) THEN entries
    ELSE LET removed == BTreeRemove(entries, order[i])
         IN IF evicted + 1 >= to_evict THEN removed
            ELSE evict_for(removed, order, i + 1, evicted + 1, to_evict)

\* LruCache::evict
evict(c) ==
    IF c.entries = <<>> THEN c
    ELSE LET to_evict == Min(c.eviction_batch, Len(c.entries))
             by_access == by_access_for(c.entries, 1, BTreeEmpty)
         IN [c EXCEPT !.entries = evict_for(@, EvictionOrder(by_access), 1, 0, to_evict)]

\* an insert that stores the entry first and evicts afterwards
insert_store_first(c, key, value) ==
    LET timestamp == U64SatInc(c.logical_clock)
        ticked == [c EXCEPT !.logical_clock = timestamp]
        stored == IF BTreeHas(ticked.entries, key)
                  THEN [ticked EXCEPT !.entries =
                           BTreeInsert(@, key, touch([BTreeGet(@, key) EXCEPT !.value = value],
                                                     timestamp))]
                  ELSE [ticked EXCEPT !.entries =
                           BTreeInsert(@, key, CacheEntryNew(value, timestamp))]
    IN IF Len(stored.entries) > stored.max_size THEN evict(stored) ELSE stored

\* LruCache::insert, its first half: tick the clock and evict if necessary
insert_evict(c, key) ==
    LET ticked == [c EXCEPT !.logical_clock = U64SatInc(@)]
    IN IF Len(ticked.entries) >= ticked.max_size /\ ~BTreeHas(ticked.entries, key)
       THEN evict(ticked) ELSE ticked

\* LruCache::insert, its second half: the entry to store under the key, the
\* present one with the new value and touched, or a new one
insert_entry(room, key, value) ==
    IF BTreeHas(room.entries, key)
    THEN touch([BTreeGet(room.entries, key) EXCEPT !.value = value], room.logical_clock)
    ELSE CacheEntryNew(value, room.logical_clock)

\* LruCache::insert, for keys that are integers (u64, NodeId)
insert(c, key, value) ==
    LET room == insert_evict(c, key)
    IN [room EXCEPT !.entries = BTreeInsert(@, key, insert_entry(room, key, value))]

\* LruCache::remove: the cache after the call and the value returned
remove(c, key) ==
    [cache |-> [c EXCEPT !.entries = BTreeRemove(@, key)],
     ret |-> IF BTreeHas(c.entries, key) THEN Some(BTreeGet(c.entries, key).value) ELSE None]

\* a clear that also resets the statistics
clear_and_reset(c) == [c EXCEPT !.entries = BTreeEmpty, !.hits = 0, !.misses = 0]

\* LruCache::clear
clear(c) == [c EXCEPT !.entries = BTreeEmpty]

\* LruCache::len
len(c) == Len(c.entries)

\* LruCache::hit_rate_percent
hit_rate_percent(c) ==
    LET total == U64SatAdd(c.hits, c.misses)
    IN IF total = 0 THEN 0 ELSE (U64SatMul(c.hits, 100) \div total) % 256

\* LruCache::stats
stats(c) ==
    [size |-> Len(c.entries), max_size |-> c.max_size, hits |-> c.hits,
     misses |-> c.misses, hit_rate_percent |-> hit_rate_percent(c)]

\* LruCache::contains
contains(c, key) == BTreeHas(c.entries, key)

\* LruCache::keys
keys(c) == BTreeKeys(c.entries)

\* TraversalCacheKey::new
TraversalCacheKeyNew(start, depth) ==
    [start |-> start, depth |-> depth, min_weight |-> None]

\* TraversalCacheKey::with_filter
TraversalCacheKeyWithFilter(start, depth, min_weight) ==
    [start |-> start, depth |-> depth, min_weight |-> Some(min_weight)]

\* Ord::cmp of two integers
IntCmp(a, b) == IF a < b THEN "Less" ELSE IF a > b THEN "Greater" ELSE "Equal"

\* Ord::cmp of two Option<i64>: None comes before every Some
OptionCmp(a, b) ==
    IF a = None THEN (IF b = None THEN "Equal" ELSE "Less")
    ELSE IF b = None THEN "Greater"
    ELSE IntCmp(a[1], b[1])

\* a comparison that looks at depth before start
cmp_depth_first(a, b) ==
    IF IntCmp(a.depth, b.depth) # "Equal" THEN IntCmp(a.depth, b.depth)
    ELSE IF IntCmp(a.start, b.start) # "Equal" THEN IntCmp(a.start, b.start)
    ELSE OptionCmp(a.min_weight, b.min_weight)

\* impl Ord for TraversalCacheKey: the comparison of the tuples
\* (start, depth, min_weight)
cmp(a, b) ==
    IF IntCmp(a.start, b.start) # "Equal" THEN IntCmp(a.start, b.start)
    ELSE IF IntCmp(a.depth, b.depth) # "Equal" THEN IntCmp(a.depth, b.depth)
    ELSE OptionCmp(a.min_weight, b.min_weight)

\* impl PartialEq for TraversalCacheKey
eq(a, b) ==
    /\ a.start = b.start
    /\ a.depth = b.depth
    /\ a.min_weight = b.min_weight

\* BTreeMap::insert for TraversalCacheKey keys: replaces the value of a key
\* that compares Equal, otherwise places the entry before the first key
\* that compares Greater
RECURSIVE BTreeInsertOrd(_, _, _)
BTreeInsertOrd(m, k, v) ==
    IF m = <<>> THEN << <<k, v>> >>
    ELSE IF cmp(Head(m)[1], k) = "Equal" THEN << <<k, v>> >> \o Tail(m)
    ELSE IF cmp(Head(m)[1], k) = "Greater" THEN << <<k, v>> >> \o m
    ELSE <<Head(m)>> \o BTreeInsertOrd(Tail(m), k, v)

\* cache::traversal_cache
traversal_cache == LruCacheNew(100)

\* LruCache::insert, for TraversalCacheKey keys
traversal_cache_insert(c, key, value) ==
    LET room == insert_evict(c, key)
    IN [room EXCEPT !.entries = BTreeInsertOrd(@, key, insert_entry(room, key, value))]

\* ---------------------------------------------------------------- state
\* nodes .. next_node_id: the fields of the Graph; cache: the LruCache;
\* get_calls: how many times LruCache::get was called since construction;
\* guards: the GraphReadGuards alive, each with the graph it was acquired on;
\* last: the call just made
VARIABLES nodes, edges, entity_index, next_node_id, cache, get_calls, guards,
          futures, last

vars == <<nodes, edges, entity_index, next_node_id, cache, get_calls, guards,
          futures, last>>

\* the Graph object
G == [nodes |-> nodes, edges |-> edges,
      entity_index |-> entity_index, next_node_id |-> next_node_id]

\* the call just made: its name, its arguments, what it returned, and (for
\* insert_edge and increment_edge) the weight the edge had before the call
Call(op, args, ret, old) == [op |-> op, args |-> args, ret |-> ret, old |-> old]

\* the operations of the graph store have no cache at hand
CacheUntouched == UNCHANGED <<cache, get_calls>>

\* a graph store that is used without a cache
NoCacheUse ==
    /\ cache = LruCacheNew(DEFAULT_CACHE_SIZE)
    /\ get_calls = 0

\* a method taking `&mut self` that runs although a guard borrows the graph
MutableWhileBorrowed == TRUE

\* a method taking `&mut self` needs a graph that no GraphReadGuard borrows
NoGuardAlive == guards = <<>>

\* the calls of the client library that are in flight stay where they are: the
\* graph store and the cache make no request and answer none
NoClientStep == UNCHANGED futures

\* the fields of the graph stay as they are
GraphKept == UNCHANGED <<nodes, edges, entity_index, next_node_id>>

SetGraph(g) ==
    /\ NoGuardAlive
    /\ UNCHANGED guards
    /\ NoClientStep
    /\ CacheUntouched
    /\ nodes' = g.nodes
    /\ edges' = g.edges
    /\ entity_index' = g.entity_index
    /\ next_node_id' = g.next_node_id

\* a read that advances the next-id counter
GraphCounterAdvanced ==
    /\ UNCHANGED <<nodes, edges, entity_index, guards>>
    /\ NoClientStep
    /\ next_node_id' = U64SatInc(next_node_id)

\* what an operation taking `&self` / `&Graph` does to the graph and to the
\* guards that borrow it: nothing
GraphUnchanged ==
    /\ GraphKept
    /\ UNCHANGED guards
    /\ NoClientStep

\* Graph::new()
Init ==
    /\ nodes = GraphNew.nodes
    /\ edges = GraphNew.edges
    /\ entity_index = GraphNew.entity_index
    /\ next_node_id = GraphNew.next_node_id
    /\ last = Call("new", <<>>, None, None)
    /\ NoCacheUse
    /\ guards = <<>>
    /\ futures = <<>>

InsertNodeOf(e) ==
    LET r == insert_node(G, e)
    IN /\ SetGraph(r.g)
       /\ last' = Call("insert_node", <<e>>, Some(r.ret), None)

InsertNode == \E e \in EntityIds : InsertNodeOf(e)

ImportNode ==
    \E id \in ImportIds, e \in EntityIds :
        /\ SetGraph(import_node(G, Node(id, e)))
        /\ last' = Call("import_node", <<id, e>>, None, None)

InsertEdge ==
    \E from \in FromArgs, to \in ToArgs, w \in Weights :
        /\ contains_edge(G, from, to) \/ edge_count(G) < MaxEdges
        /\ SetGraph(insert_edge(G, from, to, w))
        /\ last' = Call("insert_edge", <<from, to, w>>, None, get_edge(G, from, to))

IncrementEdge ==
    \E from \in FromArgs, to \in ToArgs :
        /\ contains_edge(G, from, to) \/ edge_count(G) < MaxEdges
        /\ SetGraph(increment_edge(G, from, to))
        /\ last' = Call("increment_edge", <<from, to>>, None, get_edge(G, from, to))

\* The graph store under insert_node, insert_edge and increment_edge
Next ==
    \/ InsertNode
    \/ InsertEdge
    \/ IncrementEdge

Spec == Init /\ [][Next]_vars

\* The node table under insert_node and import_node
NextNodes ==
    \/ InsertNode
    \/ ImportNode

SpecNodes == Init /\ [][NextNodes]_vars

\* insert_node alone, offered enough distinct entities to exhaust the ids
InsertNodeMany == \E e \in 0..(U64_MAX + 1) : InsertNodeOf(e)

SpecInsert == Init /\ [][InsertNodeMany]_vars

\* ---------------------------------------------------------------- import
\* The canonical forms offered to from_canonical: at most two nodes in
\* ascending NodeId order with distinct entities, at most one edge, and any
\* value of the counter
CanonicalNodeLists ==
    {<<>>}
    \cup {<<[id |-> i, entity |-> e]>> : i \in ImportIds, e \in EntityIds}
    \cup {<<[id |-> i, entity |-> e], [id |-> j, entity |-> f]>> :
              i \in ImportIds, j \in ImportIds, e \in EntityIds, f \in EntityIds}

CanonicalEdgeLists == {<<>>, <<[from |-> 0, to |-> 1, weight |-> 1]>>}

CanonicalGraphs ==
    {c \in [nodes : CanonicalNodeLists, edges : CanonicalEdgeLists, next_node_id : NodeIds] :
        Len(c.nodes) = 2 => (c.nodes[1].id < c.nodes[2].id
                             /\ c.nodes[1].entity # c.nodes[2].entity)}

FromCanonical ==
    \E canonical \in CanonicalGraphs :
        /\ SetGraph(from_canonical(canonical))
        /\ last' = Call("from_canonical", <<canonical>>, None, None)

\* Graphs rebuilt by from_canonical and import_node
NextImport ==
    \/ ImportNode
    \/ FromCanonical

SpecImport == Init /\ [][NextImport]_vars

\* ---------------------------------------------------------------- queries
\* insert_node for the entities 0 .. n-1, in that order
RECURSIVE InsertNodes(_, _)
InsertNodes(g, n) ==
    IF n = 0 THEN g ELSE insert_node(InsertNodes(g, n - 1), n - 1).g

\* increment_edge for each <<from, to>> of ops, in that order
RECURSIVE IncrementEdges(_, _)
IncrementEdges(g, ops) ==
    IF ops = <<>> THEN g
    ELSE IncrementEdges(increment_edge(g, Head(ops)[1], Head(ops)[2]), Tail(ops))

\* the sequences of at most MaxQueryEdges increment_edge calls
EdgeOpSeqs == UNION {[1..k -> QueryFromArgs \X QueryNodeIds] : k \in 0..MaxQueryEdges}

\* A graph built by insert_node and increment_edge calls, before any query
InitQuery ==
    \E n \in QueryNodeCounts, ops \in EdgeOpSeqs :
        LET g == IncrementEdges(InsertNodes(GraphNew, n), ops)
        IN /\ nodes = g.nodes
           /\ edges = g.edges
           /\ entity_index = g.entity_index
           /\ next_node_id = g.next_node_id
           /\ last = Call("new", <<>>, None, None)
           /\ NoCacheUse
           /\ guards = <<>>
           /\ futures = <<>>

\* The queries read the graph and change nothing: one query from each graph
\* shows what every query from it returns.
Traverse ==
    \E start \in QueryStarts, depth \in Depths :
        /\ last.op = "new"
        /\ GraphUnchanged
        /\ CacheUntouched
        /\ last' = Call("traverse", <<start, depth>>, traverse(G, start, depth), None)

TraverseFiltered ==
    \E start \in QueryStarts, depth \in Depths, min_weight \in MinWeights :
        /\ last.op = "new"
        /\ GraphUnchanged
        /\ CacheUntouched
        /\ last' = Call("traverse_filtered", <<start, depth, min_weight>>,
                        traverse_filtered(G, start, depth, min_weight), None)

TraverseDfs ==
    \E start \in QueryStarts, depth \in Depths :
        /\ last.op = "new"
        /\ GraphUnchanged
        /\ CacheUntouched
        /\ last' = Call("traverse_dfs", <<start, depth>>, traverse_dfs(G, start, depth), None)

RelatedSubgraph ==
    \E start \in QueryStarts, depth \in Depths :
        /\ last.op = "new"
        /\ GraphUnchanged
        /\ CacheUntouched
        /\ last' = Call("related_subgraph", <<start, depth>>,
                        related_subgraph(G, start, depth), None)

RelatedContext ==
    \E start \in QueryStarts, depth \in Depths :
        /\ last.op = "new"
        /\ GraphUnchanged
        /\ CacheUntouched
        /\ last' = Call("related_context", <<start, depth>>,
                        related_context(G, start, depth), None)

NextQuery ==
    \/ Traverse
    \/ TraverseFiltered
    \/ TraverseDfs
    \/ RelatedSubgraph
    \/ RelatedContext

SpecQuery == InitQuery /\ [][NextQuery]_vars

\* ---------------------------------------------------------------- intersect
\* BTreeSet::into_iter: the elements of a set of NodeIds in ascending order
RECURSIVE BTreeSetIter(_)
BTreeSetIter(s) ==
    IF s = {} THEN <<>>
    ELSE LET least == CHOOSE x \in s : \A y \in s : x <= y
         IN <<least>> \o BTreeSetIter(s \ {least})

\* self.neighbors(node).map(|(n, _)| n).collect::<BTreeSet<_>>()
NeighborSet(g, node) == {neighbors(g, node)[i][1] : i \in 1..Len(neighbors(g, node))}

\* Graph::intersect, `for &node in &nodes[1..]`
RECURSIVE intersect_for(_, _, _)
intersect_for(g, rest, result) ==
    IF rest = <<>> THEN result
    ELSE intersect_for(g, Tail(rest), result \cap NeighborSet(g, Head(rest)))

\* Graph::intersect
intersect(g, ns) ==
    IF ns = <<>> THEN <<>>
    ELSE LET first_neighbors == NeighborSet(g, ns[1])
         IN IF first_neighbors = {} THEN <<>>
            ELSE BTreeSetIter(intersect_for(g, Tail(ns), first_neighbors))

\* the slices of at most MaxIntersectLen NodeIds offered to intersect
IntersectArgs == UNION {[1..k -> QueryNodeIds] : k \in 0..MaxIntersectLen}

Intersect ==
    \E ns \in IntersectArgs :
        /\ last.op = "new"
        /\ GraphUnchanged
        /\ CacheUntouched
        /\ last' = Call("intersect", <<ns>>, intersect(G, ns), None)

SpecIntersect == InitQuery /\ [][Intersect]_vars

\* ---------------------------------------------------------------- strongest_path
\* i64::MAX, scaled for the arithmetic of strongest_path: far above every
\* edge weight the graphs hold, as i64::MAX is above the weights that
\* increment_edge stores, so that the cost of one edge stays just below it
\* and the costs of two edges add up to more
I64_WIDE_MAX == 1000

\* i64::saturating_add of two non-negative values, on the scale of
\* I64_WIDE_MAX
I64SatAdd(a, b) == IF a + b > I64_WIDE_MAX THEN I64_WIDE_MAX ELSE a + b

\* i64::saturating_sub, on the scale of I64_WIDE_MAX
I64SatSub(a, b) ==
    IF a - b > I64_WIDE_MAX THEN I64_WIDE_MAX
    ELSE IF a - b < (0 - I64_WIDE_MAX) - 1 THEN (0 - I64_WIDE_MAX) - 1 ELSE a - b

\* dist.iter().filter(|(n, _)| !visited.contains(*n)).min_by_key(|(_, d)| *d):
\* the first entry in key order among the unvisited ones of least distance
RECURSIVE MinUnvisited(_, _, _)
MinUnvisited(dist, visited, best) ==
    IF dist = <<>> THEN best
    ELSE LET n == Head(dist)[1]
             d == Head(dist)[2]
             better == n \notin visited /\ (best = None \/ d < best[1][2])
         IN MinUnvisited(Tail(dist), visited, IF better THEN Some(<<n, d>>) ELSE best)

\* strongest_path, `for (neighbor, weight) in self.neighbors(current)`
RECURSIVE strongest_path_for(_, _, _, _)
strongest_path_for(nbrs, current, current_dist, st) ==
    IF nbrs = <<>> THEN st
    ELSE LET neighbor == Head(nbrs)[1]
             weight == Head(nbrs)[2]
             clamped_weight == IF weight > 0 THEN weight ELSE 0
             edge_cost == I64SatSub(I64_WIDE_MAX, clamped_weight)
             new_dist == I64SatAdd(current_dist, edge_cost)
             st1 == IF neighbor \in st.visited THEN st
                    ELSE IF ~BTreeHas(st.dist, neighbor) \/ new_dist < BTreeGet(st.dist, neighbor)
                    THEN [st EXCEPT !.dist = BTreeInsert(@, neighbor, new_dist),
                                    !.prev = BTreeInsert(@, neighbor, current)]
                    ELSE st
         IN strongest_path_for(Tail(nbrs), current, current_dist, st1)

\* strongest_path, its `loop`; iterations counts the passes through the loop
\* body, which the code does not count
RECURSIVE strongest_path_loop(_, _, _)
strongest_path_loop(g, end, entry) ==
    LET st == [entry EXCEPT !.iterations = @ + 1]
        found == MinUnvisited(st.dist, st.visited, None)
    IN IF found = None THEN st
       ELSE LET current == found[1][1]
            IN IF current = end THEN st
               ELSE LET st1 == [st EXCEPT !.visited = @ \cup {current}]
                        current_dist == BTreeGet(st1.dist, current)
                    IN strongest_path_loop(g, end,
                           strongest_path_for(neighbors(g, current), current,
                                              current_dist, st1))

\* strongest_path, the reconstruction: the reversed path from current back to
\* start, or None when prev has no entry on the way
RECURSIVE ReconstructPath(_, _, _, _)
ReconstructPath(prev, start, current, path) ==
    IF current = start THEN Some(Append(path, start))
    ELSE IF ~BTreeHas(prev, current) THEN None
    ELSE ReconstructPath(prev, start, BTreeGet(prev, current), Append(path, current))

\* a path left in the order the reconstruction collected it
Unreversed(s) == s

\* Vec::reverse
Reverse(s) == [i \in 1..Len(s) |-> s[Len(s) + 1 - i]]

\* strongest_path without the test that both endpoints exist
strongest_path_unchecked(g, start, end) ==
    IF start = end THEN Some(<<start>>)
    ELSE LET st == strongest_path_loop(g, end,
                       [dist |-> BTreeInsert(BTreeEmpty, start, 0),
                        prev |-> BTreeEmpty, visited |-> {}, iterations |-> 0])
             back == ReconstructPath(st.prev, start, end, <<>>)
         IN IF ~BTreeHas(st.prev, end) /\ start # end THEN None
            ELSE IF back = None THEN None
            ELSE Some(Reverse(back[1]))

\* Graph::strongest_path
strongest_path(g, start, end) ==
    IF ~contains_node(g, start) \/ ~contains_node(g, end) THEN None
    ELSE IF start = end THEN Some(<<start>>)
    ELSE LET st == strongest_path_loop(g, end,
                       [dist |-> BTreeInsert(BTreeEmpty, start, 0),
                        prev |-> BTreeEmpty, visited |-> {}, iterations |-> 0])
             back == ReconstructPath(st.prev, start, end, <<>>)
         IN IF ~BTreeHas(st.prev, end) /\ start # end THEN None
            ELSE IF back = None THEN None
            ELSE Some(Reverse(back[1]))

\* The edges the graphs of the path queries may hold: two routes 0->1->3 and
\* 0->2->3, a cross edge and an edge back to 0
PathEdgeList == << <<0, 1>>, <<0, 2>>, <<1, 2>>, <<1, 3>>, <<2, 3>>, <<3, 0>> >>

\* How an edge of PathEdgeList is stored: not at all (0), by
\* insert_edge with weight -1 (1), by one increment_edge (2) or by two (3)
EdgeBuilds == 0..3

\* the calls that store edge i of PathEdgeList the way build says
BuildEdge(g, i, build) ==
    LET from == PathEdgeList[i][1]
        to == PathEdgeList[i][2]
    IN IF build = 0 THEN g
       ELSE IF build = 1 THEN insert_edge(g, from, to, -1)
       ELSE IF build = 2 THEN increment_edge(g, from, to)
       ELSE increment_edge(increment_edge(g, from, to), from, to)

\* the calls for the edges 1..i of PathEdgeList, in that order
RECURSIVE BuildEdges(_, _, _)
BuildEdges(g, builds, i) ==
    IF i = 0 THEN g ELSE BuildEdge(BuildEdges(g, builds, i - 1), i, builds[i])

\* A graph of 2 or 4 nodes holding at most MaxPathEdges edges of PathEdgeList
InitPaths ==
    \E n \in {2, 4}, builds \in [1..Len(PathEdgeList) -> EdgeBuilds] :
        /\ Cardinality({i \in 1..Len(PathEdgeList) : builds[i] # 0}) <= MaxPathEdges
        /\ LET g == BuildEdges(InsertNodes(GraphNew, n), builds, Len(PathEdgeList))
           IN /\ nodes = g.nodes
              /\ edges = g.edges
              /\ entity_index = g.entity_index
              /\ next_node_id = g.next_node_id
              /\ last = Call("new", <<>>, None, None)
              /\ NoCacheUse
              /\ guards = <<>>
              /\ futures = <<>>

StrongestPath ==
    \E start \in QueryNodeIds, end \in QueryNodeIds :
        /\ last.op = "new"
        /\ GraphUnchanged
        /\ CacheUntouched
        /\ last' = Call("strongest_path", <<start, end>>,
                        strongest_path(G, start, end), None)

SpecPaths == InitPaths /\ [][StrongestPath]_vars

\* ---------------------------------------------------------------- loops
\* The traversals and strongest_path on the graphs of the queries, which
\* hold cycles, self-loops and edges that lead nowhere
NextLoops ==
    \/ Traverse
    \/ TraverseFiltered
    \/ TraverseDfs
    \/ StrongestPath

SpecLoops == InitQuery /\ [][NextLoops]_vars

\* ---------------------------------------------------------------- compositor
\* Artifact::with_path: an Artifact without subgraph
ArtifactWithPath(path) == Artifact(path, <<>>)

\* Compositor::compose
compose(g, start, depth) == traverse(g, start, depth)

\* Compositor::compose_filtered
compose_filtered(g, start, depth, min_weight) == traverse_filtered(g, start, depth, min_weight)

\* Compositor::extract_path, `for window in path.windows(2)`
RECURSIVE extract_path_for(_, _, _, _)
extract_path_for(g, path, i, subgraph) ==
    IF i >= Len(path) THEN subgraph
    ELSE LET from == path[i]
             to == path[i + 1]
             weight == get_edge(g, from, to)
         IN extract_path_for(g, path, i + 1,
                IF weight # None THEN Append(subgraph, <<from, to, weight[1]>>)
                ELSE subgraph)

\* extract_path that starts collecting edges at the second window
extract_path_from_second(g, start, end) ==
    LET path == strongest_path(g, start, end)
    IN IF path = None THEN None
       ELSE Some(Artifact(path[1], extract_path_for(g, path[1], 2, <<>>)))

\* Compositor::extract_path
extract_path(g, start, end) ==
    LET path == strongest_path(g, start, end)
    IN IF path = None THEN None
       ELSE Some(Artifact(path[1], extract_path_for(g, path[1], 1, <<>>)))

\* Compositor::find_intersection
find_intersection(g, ns) == ArtifactWithPath(intersect(g, ns))

\* ---------------------------------------------------------------- grounding
\* The threshold a confidence score must reach to count as verified
VERIFICATION_THRESHOLD == 50

\* ConfidenceScore::new
ConfidenceScoreNew(score, edge_count_, path_length) ==
    [score |-> score, edge_count |-> edge_count_, path_length |-> path_length]

\* ConfidenceScore::zero
ConfidenceScoreZero == ConfidenceScoreNew(0, 0, 0)

\* ConfidenceScore::is_verified
is_verified(confidence) == confidence.score >= VERIFICATION_THRESHOLD

\* confidence::compute_confidence: a score out of 100 that grows with the
\* number of edges and the length of the path of the artifact
compute_confidence(artifact, g) ==
    ConfidenceScoreNew(Min(100, 20 * Len(artifact.path) + 20 * Len(artifact.subgraph)),
                       Len(artifact.subgraph), Len(artifact.path))

\* confidence::compute_path_confidence: the variant for a bare path
compute_path_confidence(path, g) ==
    ConfidenceScoreNew(Min(100, 25 * Len(path)), Len(path) - 1, Len(path))

\* an unverified result that keeps a full score
GroundedUnverifiedFullScore ==
    [artifact |-> None, confidence |-> ConfidenceScoreNew(100, 0, 0),
     verified |-> FALSE, evidence_path |-> <<>>]

\* GroundedResult::unverified
GroundedUnverified ==
    [artifact |-> None, confidence |-> ConfidenceScoreZero,
     verified |-> FALSE, evidence_path |-> <<>>]

\* a result with an artifact that is verified whatever its confidence
GroundedWithArtifactAlwaysVerified(artifact, confidence) ==
    [artifact |-> Some(artifact), confidence |-> confidence,
     verified |-> TRUE, evidence_path |-> artifact.path]

\* GroundedResult::with_artifact
GroundedWithArtifact(artifact, confidence) ==
    [artifact |-> Some(artifact), confidence |-> confidence,
     verified |-> is_verified(confidence), evidence_path |-> artifact.path]

\* verify_hypothesis, the arm of the traversals: grade what the graph
\* operation returned
GroundTraversal(found, g) ==
    IF found # None
    THEN GroundedWithArtifact(found[1], compute_confidence(found[1], g))
    ELSE GroundedUnverified

\* a verify_hypothesis that grades a lookup like a traversal
verify_hypothesis_graded_lookup(g, query) ==
    IF query.type = "Lookup"
    THEN LET found == get_node_by_entity(g, query.entity)
         IN GroundTraversal(IF found # None THEN Some(ArtifactWithPath(<<found[1]>>)) ELSE None, g)
    ELSE GroundedUnverified

\* grounding::verify_hypothesis
verify_hypothesis(g, query) ==
    IF query.type = "Lookup"
    THEN LET found == get_node_by_entity(g, query.entity)
         IN IF found # None
            THEN GroundedWithArtifact(ArtifactWithPath(<<found[1]>>),
                                      ConfidenceScoreNew(100, 0, 1))
            ELSE GroundedUnverified
    ELSE IF query.type = "Traverse"
    THEN GroundTraversal(traverse(g, query.start, query.depth), g)
    ELSE IF query.type = "TraverseFiltered"
    THEN GroundTraversal(traverse_filtered(g, query.start, query.depth, query.min_weight), g)
    ELSE IF query.type = "StrongestPath"
    THEN LET path == strongest_path(g, query.start, query.end)
         IN IF path # None
            THEN GroundedWithArtifact(ArtifactWithPath(path[1]),
                                      compute_path_confidence(path[1], g))
            ELSE GroundedUnverified
    ELSE IF query.type = "Intersect"
    THEN LET common == intersect(g, query.nodes)
         IN IF common = <<>> THEN GroundedUnverified
            ELSE GroundedWithArtifact(ArtifactWithPath(common),
                                      compute_confidence(ArtifactWithPath(common), g))
    ELSE IF query.type = "RelatedSubgraph"
    THEN GroundTraversal(related_subgraph(g, query.start, query.depth), g)
    ELSE GroundTraversal(traverse_dfs(g, query.start, query.depth), g)

\* ---------------------------------------------------------------- depth-first
\* The graphs traverse_dfs is compared with traverse on: four nodes and at
\* most MaxDfsEdges increment_edge calls, enough for a node that is one hop
\* from start and is first met two hops down another branch
DfsEdgePairs == {0, 1, 2} \X {1, 2, 3}

DfsEdgeOpSeqs == UNION {[1..k -> DfsEdgePairs] : k \in 0..MaxDfsEdges}

InitDfs ==
    \E ops \in DfsEdgeOpSeqs :
        LET g == IncrementEdges(InsertNodes(GraphNew, 4), ops)
        IN /\ nodes = g.nodes
           /\ edges = g.edges
           /\ entity_index = g.entity_index
           /\ next_node_id = g.next_node_id
           /\ last = Call("new", <<>>, None, None)
           /\ NoCacheUse
           /\ guards = <<>>
           /\ futures = <<>>

SpecDfs == InitDfs /\ [][TraverseDfs]_vars

\* ---------------------------------------------------------------- reads
\* Arguments offered to the read operations: a NodeId / EntityId that the
\* graphs hold and one that only the larger graphs hold
ReadIds == {0, 3}

ReadDepths == {0, MAX_TRAVERSAL_DEPTH}

ReadSlices == {<<>>, <<0>>, <<0, 1>>}

\* The queries offered to verify_hypothesis, one or more of every QueryType
ReadQueries ==
    {[type |-> "Lookup", entity |-> e] : e \in ReadIds}
    \cup {[type |-> t, start |-> s, depth |-> d] :
              t \in {"Traverse", "RelatedSubgraph", "TraverseDfs"},
              s \in ReadIds, d \in ReadDepths}
    \cup {[type |-> "TraverseFiltered", start |-> s, depth |-> MAX_TRAVERSAL_DEPTH,
           min_weight |-> m] : s \in ReadIds, m \in MinWeights}
    \cup {[type |-> "StrongestPath", start |-> s, end |-> e] : s \in ReadIds, e \in ReadIds}
    \cup {[type |-> "Intersect", nodes |-> ns] : ns \in ReadSlices}

\* a step of an operation that takes the graph by shared reference
Read(op, args, ret) ==
    /\ last.op = "new"
    /\ GraphUnchanged
    /\ CacheUntouched
    /\ last' = Call(op, args, ret, None)

Lookup == \E id \in ReadIds : Read("lookup", <<id>>, lookup(G, id))

GetNodeByEntity ==
    \E e \in ReadIds : Read("get_node_by_entity", <<e>>, get_node_by_entity(G, e))

GetEdge ==
    \E from \in ReadIds, to \in ReadIds :
        Read("get_edge", <<from, to>>, get_edge(G, from, to))

Neighbors == \E n \in ReadIds : Read("neighbors", <<n>>, neighbors(G, n))

NodeCount == Read("node_count", <<>>, <<node_count(G)>>)

EdgeCount == Read("edge_count", <<>>, <<edge_count(G)>>)

ReadTraverse ==
    \E s \in ReadIds, d \in ReadDepths : Read("traverse", <<s, d>>, traverse(G, s, d))

ReadTraverseFiltered ==
    \E s \in ReadIds, d \in ReadDepths, m \in MinWeights :
        Read("traverse_filtered", <<s, d, m>>, traverse_filtered(G, s, d, m))

ReadTraverseDfs ==
    \E s \in ReadIds, d \in ReadDepths :
        Read("traverse_dfs", <<s, d>>, traverse_dfs(G, s, d))

ReadIntersect == \E ns \in ReadSlices : Read("intersect", <<ns>>, intersect(G, ns))

ReadStrongestPath ==
    \E s \in ReadIds, e \in ReadIds :
        Read("strongest_path", <<s, e>>, strongest_path(G, s, e))

ReadRelatedSubgraph ==
    \E s \in ReadIds, d \in ReadDepths :
        Read("related_subgraph", <<s, d>>, related_subgraph(G, s, d))

Compose ==
    \E s \in ReadIds, d \in ReadDepths : Read("compose", <<s, d>>, compose(G, s, d))

ComposeFiltered ==
    \E s \in ReadIds, d \in ReadDepths, m \in MinWeights :
        Read("compose_filtered", <<s, d, m>>, compose_filtered(G, s, d, m))

ExtractPath ==
    \E s \in ReadIds, e \in ReadIds :
        Read("extract_path", <<s, e>>, extract_path(G, s, e))

FindIntersection ==
    \E ns \in ReadSlices : Read("find_intersection", <<ns>>, find_intersection(G, ns))

ReadRelatedContext ==
    \E s \in ReadIds, d \in ReadDepths :
        Read("related_context", <<s, d>>, related_context(G, s, d))

VerifyHypothesis ==
    \E query \in ReadQueries :
        Read("verify_hypothesis", <<query>>, verify_hypothesis(G, query))

\* Every operation that takes the graph by shared reference
NextReads ==
    \/ Lookup
    \/ GetNodeByEntity
    \/ GetEdge
    \/ Neighbors
    \/ NodeCount
    \/ EdgeCount
    \/ ReadTraverse
    \/ ReadTraverseFiltered
    \/ ReadTraverseDfs
    \/ ReadIntersect
    \/ ReadStrongestPath
    \/ ReadRelatedSubgraph
    \/ Compose
    \/ ComposeFiltered
    \/ ExtractPath
    \/ FindIntersection
    \/ ReadRelatedContext
    \/ VerifyHypothesis

SpecReads == InitPaths /\ [][NextReads]_vars

\* ---------------------------------------------------------------- cache use
\* Keys offered to the cache: one more than the largest cache holds
CacheKeys == {0, 1, 2}

\* The (key, value) pairs offered to insert: every key, and for one key a
\* second value to tell a replaced value from the old one
CacheInserts == {<<0, 10>>, <<0, 20>>, <<1, 10>>, <<2, 10>>}

\* Sizes and batch sizes offered at construction; 0 is clamped to 1, and the
\* default batch size exceeds every size offered
CacheSizes == {0, 2}

CacheBatches == {0}

\* The most LruCache::get calls followed
MaxGetCalls == 4

\* LruCache::new(max_size), with or without with_eviction_batch(batch_size)
InitCache ==
    /\ nodes = GraphNew.nodes
    /\ edges = GraphNew.edges
    /\ entity_index = GraphNew.entity_index
    /\ next_node_id = GraphNew.next_node_id
    /\ cache \in {LruCacheNew(m) : m \in CacheSizes}
                 \cup {with_eviction_batch(LruCacheNew(m), b) :
                          m \in CacheSizes, b \in CacheBatches}
    /\ get_calls = 0
    /\ guards = <<>>
    /\ futures = <<>>
    /\ last = Call("new", <<>>, None, None)

\* a read that ticks the clock
CacheClockTicked == cache' = [cache EXCEPT !.logical_clock = U64SatInc(@)]

\* what an operation taking `&self` does to the cache: nothing
CacheUnchanged == cache' = cache

\* a call on the cache: the graph is not involved, and the call is recorded
\* together with the cache it was made on
CacheCall(op, args, ret) ==
    /\ GraphUnchanged
    /\ last' = Call(op, args, ret, cache)

\* a call of an operation that takes the cache by shared reference
CacheRead(op, args, ret) ==
    /\ CacheUnchanged
    /\ UNCHANGED get_calls
    /\ CacheCall(op, args, ret)

CacheGet ==
    \E key \in CacheKeys :
        /\ get_calls < MaxGetCalls
        /\ cache' = get(cache, key).cache
        /\ get_calls' = get_calls + 1
        /\ CacheCall("get", <<key>>, get(cache, key).ret)

CachePeek == \E key \in CacheKeys : CacheRead("peek", <<key>>, peek(cache, key))

CacheInsert ==
    \E kv \in CacheInserts :
        /\ cache' = insert(cache, kv[1], kv[2])
        /\ UNCHANGED get_calls
        /\ CacheCall("insert", kv, None)

CacheRemove ==
    \E key \in CacheKeys :
        /\ cache' = remove(cache, key).cache
        /\ UNCHANGED get_calls
        /\ CacheCall("remove", <<key>>, remove(cache, key).ret)

CacheClear ==
    /\ cache' = clear(cache)
    /\ UNCHANGED get_calls
    /\ CacheCall("clear", <<>>, None)

CacheLen == CacheRead("len", <<>>, <<len(cache)>>)

CacheStats == CacheRead("stats", <<>>, <<stats(cache)>>)

CacheContains ==
    \E key \in CacheKeys : CacheRead("contains", <<key>>, <<contains(cache, key)>>)

\* The cache under all its operations
NextCache ==
    \/ CacheGet
    \/ CachePeek
    \/ CacheInsert
    \/ CacheRemove
    \/ CacheClear
    \/ CacheLen
    \/ CacheStats
    \/ CacheContains

SpecCache == InitCache /\ [][NextCache]_vars

\* ---------------------------------------------------------------- hit rate
\* Counter values offered to hit_rate_percent, in the units of U64_WIDE_MAX:
\* small ones, the largest whose hundredfold fits, the next one, half the
\* range, and the largest values of a counter
HitRateCounters ==
    {0, 1, 2, 3, U64_WIDE_MAX \div 100, U64_WIDE_MAX \div 100 + 1,
     U64_WIDE_MAX \div 2, U64_WIDE_MAX - 1, U64_WIDE_MAX}

\* a cache whose statistics counters have reached any of these values
InitHitRate ==
    /\ nodes = GraphNew.nodes
    /\ edges = GraphNew.edges
    /\ entity_index = GraphNew.entity_index
    /\ next_node_id = GraphNew.next_node_id
    /\ \E h \in HitRateCounters, m \in HitRateCounters :
          cache = [LruCacheNew(DEFAULT_CACHE_SIZE) EXCEPT !.hits = h, !.misses = m]
    /\ get_calls = 0
    /\ guards = <<>>
    /\ futures = <<>>
    /\ last = Call("new", <<>>, None, None)

HitRatePercent ==
    /\ last.op = "new"
    /\ CacheRead("hit_rate_percent", <<>>, <<hit_rate_percent(cache)>>)

HitRateStats ==
    /\ last.op = "new"
    /\ CacheRead("stats", <<>>, <<stats(cache)>>)

NextHitRate ==
    \/ HitRatePercent
    \/ HitRateStats

SpecHitRate == InitHitRate /\ [][NextHitRate]_vars

\* ---------------------------------------------------------------- traversal cache
\* Keys offered to the traversal cache: keys that differ in start, in depth
\* and in the filter, with and without a filter, and fields that pull in
\* opposite directions
TraversalKeys ==
    {TraversalCacheKeyNew(0, 0),
     TraversalCacheKeyWithFilter(0, 0, -1),
     TraversalCacheKeyWithFilter(0, 0, 1),
     TraversalCacheKeyNew(0, 1),
     TraversalCacheKeyNew(1, 0),
     TraversalCacheKeyWithFilter(1, 0, -1)}

\* The most keys a traversal cache is followed to
MaxTraversalKeys == 3

\* cache::traversal_cache()
InitKeys ==
    /\ nodes = GraphNew.nodes
    /\ edges = GraphNew.edges
    /\ entity_index = GraphNew.entity_index
    /\ next_node_id = GraphNew.next_node_id
    /\ cache = traversal_cache
    /\ get_calls = 0
    /\ guards = <<>>
    /\ futures = <<>>
    /\ last = Call("new", <<>>, None, None)

\* TraversalCache::insert of the result of a traversal from key.start
TraversalCacheInsert ==
    \E key \in TraversalKeys :
        /\ len(cache) < MaxTraversalKeys
        /\ ~contains(cache, key)
        /\ cache' = traversal_cache_insert(cache, key, ArtifactWithPath(<<key.start>>))
        /\ UNCHANGED get_calls
        /\ CacheCall("insert", <<key>>, None)

TraversalCacheKeys == CacheRead("keys", <<>>, keys(cache))

TraversalCacheKeyCmp ==
    \E a \in TraversalKeys, b \in TraversalKeys : CacheRead("cmp", <<a, b>>, <<cmp(a, b)>>)

\* The traversal cache under insert, and the comparison of its keys
NextKeys ==
    \/ TraversalCacheInsert
    \/ TraversalCacheKeys
    \/ TraversalCacheKeyCmp

SpecKeys == InitKeys /\ [][NextKeys]_vars

\* ---------------------------------------------------------------- read guard
\* The most GraphReadGuards alive at once
MaxGuards == 1

\* GraphReadGuard::graph: the graph the guard refers to, which is the graph
\* itself, not a copy
GuardGraphRef(i) == G

\* Graph::acquire_read_lock / GraphReadGuard::new: a shared borrow of the
\* graph; the graph as it is now is kept with the guard for comparison
AcquireReadLock ==
    /\ Len(guards) < MaxGuards
    /\ GraphKept
    /\ guards' = Append(guards, G)
    /\ CacheUntouched
    /\ NoClientStep
    /\ last' = Call("acquire_read_lock", <<>>, None, None)

\* the guard goes out of scope
DropGuard ==
    \E i \in 1..Len(guards) :
        /\ GraphKept
        /\ guards' = SubSeq(guards, 1, i - 1) \o SubSeq(guards, i + 1, Len(guards))
        /\ CacheUntouched
        /\ NoClientStep
        /\ last' = Call("drop", <<i>>, None, None)

\* a read through a guard that is alive
GuardRead(op, i, ret) ==
    /\ GraphUnchanged
    /\ CacheUntouched
    /\ last' = Call(op, <<i>>, ret, None)

\* GraphReadGuard::graph
GuardGraph ==
    \E i \in 1..Len(guards) : GuardRead("guard.graph", i, Some(GuardGraphRef(i)))

\* GraphReadGuard::node_count
GuardNodeCount ==
    \E i \in 1..Len(guards) : GuardRead("guard.node_count", i, <<node_count(GuardGraphRef(i))>>)

\* GraphReadGuard::edge_count
GuardEdgeCount ==
    \E i \in 1..Len(guards) : GuardRead("guard.edge_count", i, <<edge_count(GuardGraphRef(i))>>)

\* The mutators offered while guards come and go: import_node of one node,
\* insert_edge and increment_edge on one pair of nodes
GuardImportNode ==
    /\ SetGraph(import_node(G, Node(2, 1)))
    /\ last' = Call("import_node", <<2, 1>>, None, None)

GuardInsertEdge ==
    /\ SetGraph(insert_edge(G, 0, 1, 1))
    /\ last' = Call("insert_edge", <<0, 1, 1>>, None, get_edge(G, 0, 1))

GuardIncrementEdge ==
    /\ SetGraph(increment_edge(G, 0, 1))
    /\ last' = Call("increment_edge", <<0, 1>>, None, get_edge(G, 0, 1))

\* The graph store under its mutators and the read guard
NextGuard ==
    \/ InsertNode
    \/ GuardImportNode
    \/ GuardInsertEdge
    \/ GuardIncrementEdge
    \/ AcquireReadLock
    \/ DropGuard
    \/ GuardGraph
    \/ GuardNodeCount
    \/ GuardEdgeCount

SpecGuard == Init /\ [][NextGuard]_vars

\* ---------------------------------------------------------------- kremis-sdk
\* Result::Ok(v) and Result::Err(e)
Ok(v) == [value |-> v, ok |-> TRUE]

Err(e) == [ok |-> FALSE, error |-> e]

\* Error::Server(msg) and Error::Http(e)
ErrorServer(text) == [kind |-> "Server", msg |-> text]

ErrorHttp == [kind |-> "Http"]

\* The longest attribute and the longest value of a validated signal, in bytes
ATTRIBUTE_MAX_LEN == 256

VALUE_MAX_LEN == 65536

\* A String passed to Signal::try_new is held as its length in bytes, which is
\* all that try_new reads of it.  Signal { entity_id, attribute, value }
Signal(entity_id, attribute, value) ==
    [value |-> value, entity_id |-> entity_id, attribute |-> attribute]

\* format!("Attribute length {} out of valid range 1..=256", attribute.len())
AttributeLengthMsg(attribute) == <<"Attribute length", attribute, "out of valid range 1..=256">>

\* format!("Value length {} out of valid range 1..=65536", value.len())
ValueLengthMsg(value) == <<"Value length", value, "out of valid range 1..=65536">>

\* a try_new that validates the value before the attribute
try_new_value_first(entity_id, attribute, value) ==
    IF value = 0 \/ value > VALUE_MAX_LEN
    THEN Err(ErrorServer(ValueLengthMsg(value)))
    ELSE IF attribute = 0 \/ attribute > ATTRIBUTE_MAX_LEN
    THEN Err(ErrorServer(AttributeLengthMsg(attribute)))
    ELSE Ok(Signal(entity_id, attribute, value))

\* Signal::try_new(entity_id, attribute, value)
try_new(entity_id, attribute, value) ==
    IF attribute = 0 \/ attribute > ATTRIBUTE_MAX_LEN
    THEN Err(ErrorServer(AttributeLengthMsg(attribute)))
    ELSE IF value = 0 \/ value > VALUE_MAX_LEN
    THEN Err(ErrorServer(ValueLengthMsg(value)))
    ELSE Ok(Signal(entity_id, attribute, value))

\* IngestResponse { success, node_id, error }
IngestResponse(success, node_id, error) ==
    [node_id |-> node_id, error |-> error, success |-> success]

\* QueryResponse { success, found, path, edges, error }
QueryResponse(success, found, path, edges_, error) ==
    [path |-> path, edges |-> edges_, found |-> found, error |-> error, success |-> success]

\* What the two awaits of `.send().await?.json().await?` can resolve to: the
\* reqwest error of a request that failed, the reqwest error of a body that
\* could not be read or does not decode, or the decoded body
Decoded(resp) == [kind |-> "decoded", resp |-> resp]

SendFailed == [kind |-> "failed"]

BodyFailed == [kind |-> "undecoded"]

\* The part of KremisClient::ingest and KremisClient::query after the
\* request: `?` on the outcome of the awaits, then the check of `success`
check_response(outcome) ==
    IF outcome.kind # "decoded"
    THEN Err(ErrorHttp)
    ELSE IF ~outcome.resp.success /\ outcome.resp.error # None
    THEN Err(ErrorServer(outcome.resp.error[1]))
    ELSE Ok(outcome.resp)

\* KremisClient::ingest(signal), given what its awaits resolved to
KremisClient_ingest(signal, outcome) == check_response(outcome)

\* KremisClient::query(query), given what its awaits resolved to
KremisClient_query(q, outcome) == check_response(outcome)

\* The future of a call of `async fn ingest` or `async fn query` that has been
\* polled and is suspended: the method, its argument, and the await it is
\* suspended at, "send" for `.send().await` and "json" for `.json().await`
Future(op, arg, awaiting) == [op |-> op, awaiting |-> awaiting, arg |-> arg]

\* ---------------------------------------------------------------- sdk use
\* Byte lengths offered to try_new: empty, shortest, both sides of each limit
AttributeLens == {0, 1, 2, ATTRIBUTE_MAX_LEN - 1, ATTRIBUTE_MAX_LEN, ATTRIBUTE_MAX_LEN + 1, VALUE_MAX_LEN}

ValueLens == {0, 1, ATTRIBUTE_MAX_LEN + 1, VALUE_MAX_LEN - 1, VALUE_MAX_LEN, VALUE_MAX_LEN + 1}

SignalEntities == {0, 1, U64_MAX}

\* Bodies the server can send for POST /signal
IngestResponses ==
    {IngestResponse(TRUE, Some(1), None),
     IngestResponse(TRUE, None, None),
     IngestResponse(TRUE, None, Some("warning")),
     IngestResponse(FALSE, None, Some("Invalid entity_id")),
     IngestResponse(FALSE, Some(1), Some("")),
     IngestResponse(FALSE, None, None)}

\* Bodies the server can send for POST /query
QueryResponses ==
    {QueryResponse(TRUE, TRUE, <<0, 1>>, <<[from |-> 0, to |-> 1, weight |-> 1]>>, None),
     QueryResponse(TRUE, FALSE, <<>>, <<>>, None),
     QueryResponse(FALSE, FALSE, <<>>, <<>>, Some("Invalid query")),
     QueryResponse(FALSE, FALSE, <<>>, <<>>, None)}

\* the queries of the client, by their type tag
SdkQueries == {"lookup", "traverse"}

\* The most calls of the client that are in flight at once
MaxFutures == 2

\* the client library runs apart from the graph store and its cache
SdkFrame ==
    /\ GraphKept
    /\ UNCHANGED guards
    /\ CacheUntouched

\* a call of the client library that returns at once; it depends on no
\* earlier call, so one call from the start shows what every call returns
SdkCall(op, args, ret) ==
    /\ last.op = "new"
    /\ last' = Call(op, args, ret, None)
    /\ UNCHANGED futures
    /\ SdkFrame

SignalTryNew ==
    \E e \in SignalEntities, a \in AttributeLens, v \in ValueLens :
        SdkCall("try_new", <<e, a, v>>, try_new(e, a, v))

\* a call is polled for the first time: the request is built and handed to
\* the transport, and the call is suspended at `.send().await`
Suspend(op, arg) ==
    /\ Len(futures) < MaxFutures
    /\ futures' = Append(futures, Future(op, arg, "send"))
    /\ UNCHANGED last
    /\ SdkFrame

\* the future at position i is ready: it leaves the futures in flight and
\* its caller has the result
Ready(i, outcome) ==
    LET f == futures[i]
        ret == IF f.op = "ingest" THEN KremisClient_ingest(f.arg, outcome)
               ELSE KremisClient_query(f.arg, outcome)
    IN /\ futures' = SubSeq(futures, 1, i - 1) \o SubSeq(futures, i + 1, Len(futures))
       /\ last' = Call(f.op, <<f.arg, outcome>>, ret, None)
       /\ SdkFrame

\* KremisClient::ingest(&signal), up to its first await
ClientIngest ==
    \E e \in SignalEntities : Suspend("ingest", Signal(e, 1, 1))

\* KremisClient::query(&query), up to its first await
ClientQuery ==
    \E q \in SdkQueries : Suspend("query", q)

\* `.send().await?` resolves: with an error, which `?` returns as
\* Error::Http, or with the response, whose body `.json().await` waits for
SendResolves ==
    \E i \in 1..Len(futures) :
        /\ futures[i].awaiting = "send"
        /\ \/ Ready(i, SendFailed)
           \/ /\ futures' = [futures EXCEPT ![i].awaiting = "json"]
              /\ UNCHANGED last
              /\ SdkFrame

\* `.json().await?` resolves: with an error, which `?` returns as
\* Error::Http, or with the decoded body, and the call runs to its end
JsonResolves ==
    \E i \in 1..Len(futures) :
        /\ futures[i].awaiting = "json"
        /\ \E r \in (IF futures[i].op = "ingest" THEN IngestResponses ELSE QueryResponses)
                      \cup {BodyFailed} :
              Ready(i, IF r = BodyFailed THEN r ELSE Decoded(r))

NextSdk ==
    \/ SignalTryNew
    \/ ClientIngest
    \/ ClientQuery
    \/ SendResolves
    \/ JsonResolves

SpecSdk == Init /\ [][NextSdk]_vars

\* ---------------------------------------------------------------- claims
\* the keys of a map as a set
KeySet(m) == {m[i][1] : i \in 1..Len(m)}

\* a sequence of integers is strictly ascending
StrictlyAscending(s) == \A i \in 1..Len(s) : \A j \in 1..Len(s) : i < j => s[i] < s[j]

\* <<a1, a2>> is before <<b1, b2>> in lexicographic order
LexLess(a1, a2, b1, b2) == a1 < b1 \/ (a1 = b1 /\ a2 < b2)

\* the value of an Option, or dflt for None
UnwrapOr(opt, dflt) == IF opt = None THEN dflt ELSE opt[1]

\* C1: every stored edge (from, to) has both endpoints in the node table
\* (so increment_edge with a missing endpoint stores nothing).
C1_EdgeEndpointsExist ==
    \A i \in 1..Len(graph_edges(G)) :
        /\ contains_node(G, graph_edges(G)[i][1])
        /\ contains_node(G, graph_edges(G)[i][2])

\* C2: the entity index and the node table are mutually consistent:
\* entity_index[e] = n exactly when the node table holds a node with id n and
\* entity e.
C2_IndexConsistent ==
    /\ \A i \in 1..Len(entity_index) :
          /\ BTreeHas(nodes, entity_index[i][2])
          /\ BTreeGet(nodes, entity_index[i][2]) =
                 Node(entity_index[i][2], entity_index[i][1])
    /\ \A i \in 1..Len(nodes) :
          /\ nodes[i][2].id = nodes[i][1]
          /\ BTreeHas(entity_index, nodes[i][2].entity)
          /\ BTreeGet(entity_index, nodes[i][2].entity) = nodes[i][1]

\* C3: a NodeId newly allocated by insert_node is strictly greater than every
\* NodeId allocated before it (so none is handed out twice), also once the
\* next-id counter has reached its maximum.
C3_AllocationStrictlyIncreasing ==
    [][(last'.op = "insert_node" /\ ~BTreeHas(entity_index, last'.args[1]))
          => \A k \in KeySet(nodes) : last'.ret[1] > k]_vars

\* C4: insert_node(e) again returns the same NodeId and changes nothing, and
\* the first call grows node_count by exactly 1 when e was new and by 0 when
\* e was already mapped.
C4_InsertNodeIdempotent ==
    [][last'.op = "insert_node"
          => LET e == last'.args[1]
                 again == insert_node(G', e)
             IN /\ again.ret = last'.ret[1]
                /\ again.g = G'
                /\ node_count(G') =
                       node_count(G) + (IF BTreeHas(entity_index, e) THEN 0 ELSE 1)]_vars

\* C5: insert_edge(from, to, w) with both endpoints present leaves
\* get_edge(from, to) = w whatever the weight was, and every other edge, the
\* node table, the entity index and the counter as they were; with an endpoint
\* absent it leaves the whole graph as it was.
C5_InsertEdgeReplaces ==
    [][last'.op = "insert_edge"
          => LET from == last'.args[1]
                 to == last'.args[2]
                 w == last'.args[3]
             IN IF contains_node(G, from) /\ contains_node(G, to)
                THEN /\ get_edge(G', from, to) = Some(w)
                     /\ \A f \in NodeIds : \A t \in NodeIds :
                            <<f, t>> # <<from, to>> => get_edge(G', f, t) = get_edge(G, f, t)
                     /\ edge_count(G') = edge_count(G) + (IF get_edge(G, from, to) = None THEN 1 ELSE 0)
                     /\ UNCHANGED <<nodes, entity_index, next_node_id>>
                ELSE G' = G]_vars

\* an insert_edge call replaced a weight that was different
C5_Witness ==
    /\ last.op = "insert_edge"
    /\ last.old # None
    /\ last.old # Some(last.args[3])
    /\ get_edge(G, last.args[1], last.args[2]) = Some(last.args[3])

\* increment_edge(from, to), k times
RECURSIVE IncrementTimes(_, _, _, _)
IncrementTimes(g, from, to, k) ==
    IF k = 0 THEN g ELSE increment_edge(IncrementTimes(g, from, to, k - 1), from, to)

\* C6: increment_edge sets the weight to the current weight (or 0) plus 1,
\* saturating at i64::MAX; k calls on a pair of existing nodes without an
\* edge leave weight min(k, i64::MAX).
C6_IncrementEdgeSaturates ==
    /\ last.op = "increment_edge" =>
          LET now == get_edge(G, last.args[1], last.args[2])
              was == UnwrapOr(last.old, 0)
          IN /\ now = Some(IF was = I64_MAX THEN I64_MAX ELSE was + 1)
             /\ now[1] >= was
    /\ \A from \in NodeIdArgs : \A to \in NodeIdArgs :
          (contains_node(G, from) /\ contains_node(G, to) /\ get_edge(G, from, to) = None)
              => \A k \in 1..(I64_MAX + 1) :
                     get_edge(IncrementTimes(G, from, to, k), from, to) =
                         Some(IF k <= I64_MAX THEN k ELSE I64_MAX)

\* an increment_edge call found the weight at i64::MAX
C6_Witness ==
    /\ last.op = "increment_edge"
    /\ last.old = Some(I64_MAX)
    /\ contains_node(G, last.args[1])
    /\ contains_node(G, last.args[2])
    /\ get_edge(G, last.args[1], last.args[2]) = Some(I64_MAX)

\* the stored edges in ascending (from, to) order, read through get_edge
RECURSIVE EdgesByContent(_, _)
EdgesByContent(g, i) ==
    IF i = (U64_MAX + 1) * (U64_MAX + 1) THEN <<>>
    ELSE LET from == i \div (U64_MAX + 1)
             to == i % (U64_MAX + 1)
         IN (IF get_edge(g, from, to) = None THEN <<>>
             ELSE << <<from, to, get_edge(g, from, to)[1]>> >>)
            \o EdgesByContent(g, i + 1)

\* C7: neighbors(n) yields targets in strictly ascending NodeId order and
\* edges() yields triples in strictly ascending (from, to) order, so both are
\* determined by the edges the graph holds, whatever the order of the calls
\* that stored them.
C7_IterationOrderByContent ==
    /\ \A n \in NodeIds : StrictlyAscending(BTreeKeys(neighbors(G, n)))
    /\ \A i \in 1..Len(graph_edges(G)) : \A j \in 1..Len(graph_edges(G)) :
          i < j => LexLess(graph_edges(G)[i][1], graph_edges(G)[i][2],
                           graph_edges(G)[j][1], graph_edges(G)[j][2])
    /\ graph_edges(G) = EdgesByContent(G, 0)
    /\ StrictlyAscending(BTreeKeys(nodes))

\* the call just made stored a new edge before an older edge of the same node
C7_Witness ==
    /\ last.op \in {"insert_edge", "increment_edge"}
    /\ last.old = None
    /\ Len(neighbors(G, last.args[1])) = 2
    /\ neighbors(G, last.args[1])[1][1] = last.args[2]

\* the elements of a sequence as a set
Elems(s) == {s[i] : i \in 1..Len(s)}

\* C8: traverse, traverse_filtered, traverse_dfs and related_subgraph return
\* None exactly when start is not in the node table; otherwise they return an
\* Artifact whose path is non-empty and begins with start, for every depth
\* (0 included) and every min_weight.
C8_NoneIffStartMissing ==
    last.op \in {"traverse", "traverse_filtered", "traverse_dfs", "related_subgraph"}
        => LET start == last.args[1]
           IN /\ (last.ret = None) <=> ~BTreeHas(nodes, start)
              /\ last.ret # None =>
                    /\ last.ret[1].path # <<>>
                    /\ last.ret[1].path[1] = start

\* traverse returned None for a start that is no node of a graph that has
\* nodes, although edges leave that NodeId
C8_Witness ==
    /\ last.op = "traverse"
    /\ last.ret = None
    /\ node_count(G) > 0
    /\ neighbors(G, last.args[1]) # <<>>

\* C9: for a depth greater than MAX_TRAVERSAL_DEPTH, traverse,
\* traverse_filtered and traverse_dfs return exactly what the same call with
\* depth = MAX_TRAVERSAL_DEPTH returns (path and subgraph).
C9_DepthCap ==
    /\ (last.op = "traverse" /\ last.args[2] > MAX_TRAVERSAL_DEPTH)
          => last.ret = traverse(G, last.args[1], MAX_TRAVERSAL_DEPTH)
    /\ (last.op = "traverse_filtered" /\ last.args[2] > MAX_TRAVERSAL_DEPTH)
          => last.ret = traverse_filtered(G, last.args[1], MAX_TRAVERSAL_DEPTH, last.args[3])
    /\ (last.op = "traverse_dfs" /\ last.args[2] > MAX_TRAVERSAL_DEPTH)
          => last.ret = traverse_dfs(G, last.args[1], MAX_TRAVERSAL_DEPTH)

\* traverse was asked for more than MAX_TRAVERSAL_DEPTH hops in a graph that
\* goes on beyond the cap: an edge leaves the returned path
C9_Witness ==
    /\ last.op = "traverse"
    /\ last.args[2] > MAX_TRAVERSAL_DEPTH
    /\ last.ret # None
    /\ Len(last.ret[1].path) > MAX_TRAVERSAL_DEPTH
    /\ \E i \in 1..Len(last.ret[1].path) : \E t \in QueryNodeIds :
          /\ get_edge(G, last.ret[1].path[i], t) # None
          /\ t \notin Elems(last.ret[1].path)

\* the NodeIds at most k hops from start along stored edges
RECURSIVE Within(_, _, _)
Within(g, start, k) ==
    IF k = 0 THEN {start}
    ELSE LET inner == Within(g, start, k - 1)
         IN inner \cup {t \in NodeIds : \E f \in inner : get_edge(g, f, t) # None}

\* the shortest hop distance from start to n, for n within bound hops
HopDistance(g, start, n, bound) ==
    CHOOSE k \in 0..bound :
        /\ n \in Within(g, start, k)
        /\ \A j \in 0..bound : n \in Within(g, start, j) => k <= j

\* the position in path of the first node with an edge to n
DiscoveredAt(g, path, n) ==
    CHOOSE k \in 1..Len(path) :
        /\ get_edge(g, path[k], n) # None
        /\ \A j \in 1..Len(path) : get_edge(g, path[j], n) # None => k <= j

\* C10: the path of traverse(start, depth) is the BFS first-seen order: no
\* NodeId twice; exactly the NodeIds whose shortest hop distance from start
\* (along stored edges) is at most min(depth, MAX_TRAVERSAL_DEPTH);
\* non-decreasing hop distance; nodes in the order their discoverers appear,
\* and the children discovered from one node in ascending NodeId order.
C10_BfsFirstSeenOrder ==
    (last.op = "traverse" /\ last.ret # None)
        => LET start == last.args[1]
               d == IF last.args[2] <= MAX_TRAVERSAL_DEPTH
                    THEN last.args[2] ELSE MAX_TRAVERSAL_DEPTH
               path == last.ret[1].path
           IN /\ \A i \in 1..Len(path) : \A j \in 1..Len(path) :
                    i < j => path[i] # path[j]
              /\ Elems(path) = Within(G, start, d)
              /\ \A i \in 1..Len(path) : \A j \in 1..Len(path) :
                    i < j => HopDistance(G, start, path[i], d)
                                 <= HopDistance(G, start, path[j], d)
              /\ \A i \in 2..Len(path) : \A j \in 2..Len(path) :
                    i < j => \/ DiscoveredAt(G, path, path[i]) < DiscoveredAt(G, path, path[j])
                             \/ /\ DiscoveredAt(G, path, path[i]) = DiscoveredAt(G, path, path[j])
                                /\ path[i] < path[j]

\* traverse returned two children of start in ascending order and left out a
\* NodeId that lies beyond the depth
C10_Witness ==
    /\ last.op = "traverse"
    /\ last.ret # None
    /\ Len(last.ret[1].path) >= 3
    /\ get_edge(G, last.args[1], last.ret[1].path[2]) # None
    /\ get_edge(G, last.args[1], last.ret[1].path[3]) # None
    /\ last.ret[1].path[2] < last.ret[1].path[3]
    /\ \E t \in QueryNodeIds :
          /\ get_edge(G, last.ret[1].path[2], t) # None
          /\ t \notin Elems(last.ret[1].path)

\* the out-edges of node n as <<n, to, weight>> in ascending order of `to`,
\* read through get_edge
RECURSIVE OutEdgesFrom(_, _, _)
OutEdgesFrom(g, n, to) ==
    IF to > U64_MAX THEN <<>>
    ELSE (IF get_edge(g, n, to) = None THEN <<>>
          ELSE << <<n, to, get_edge(g, n, to)[1]>> >>)
         \o OutEdgesFrom(g, n, to + 1)

\* the out-edges of the nodes path[i..] that are less than d hops from start
RECURSIVE ExaminedEdges(_, _, _, _, _)
ExaminedEdges(g, start, d, path, i) ==
    IF i > Len(path) THEN <<>>
    ELSE (IF HopDistance(g, start, path[i], d) < d
          THEN OutEdgesFrom(g, path[i], 0) ELSE <<>>)
         \o ExaminedEdges(g, start, d, path, i + 1)

\* C11: the subgraph of traverse(start, depth) is the concatenation, in path
\* order, of all out-edges (ascending target, current weights) of every path
\* node whose BFS depth is below the effective depth bound; edges to nodes
\* already visited are included and nodes at the bound contribute none.
C11_SubgraphIsExaminedEdges ==
    (last.op = "traverse" /\ last.ret # None)
        => LET d == IF last.args[2] <= MAX_TRAVERSAL_DEPTH
                    THEN last.args[2] ELSE MAX_TRAVERSAL_DEPTH
           IN last.ret[1].subgraph =
                  ExaminedEdges(G, last.args[1], d, last.ret[1].path, 1)

\* traverse recorded an edge back to a node already in the path, and left out
\* the out-edges of a path node at the depth bound
C11_Witness ==
    /\ last.op = "traverse"
    /\ last.ret # None
    /\ \E i \in 1..Len(last.ret[1].subgraph) :
          \E j \in 1..Len(last.ret[1].path) : \E k \in 1..Len(last.ret[1].path) :
             /\ j <= k
             /\ last.ret[1].subgraph[i][1] = last.ret[1].path[k]
             /\ last.ret[1].subgraph[i][2] = last.ret[1].path[j]
    /\ \E k \in 1..Len(last.ret[1].path) : \E t \in QueryNodeIds :
          /\ get_edge(G, last.ret[1].path[k], t) # None
          /\ \A i \in 1..Len(last.ret[1].subgraph) :
                last.ret[1].subgraph[i][1] # last.ret[1].path[k]

\* the entries of a target map whose weight is at least m
HeavyTargets(targets, m) == SelectSeq(targets, LAMBDA e : e[2] >= m)

\* graph g with every edge of weight < m removed
WithoutLightEdges(g, m) ==
    [g EXCEPT !.edges = [i \in 1..Len(g.edges) |->
                            <<g.edges[i][1], HeavyTargets(g.edges[i][2], m)>>]]

\* C12: traverse_filtered(start, depth, m) returns the Artifact that
\* traverse(start, depth) returns on the graph with every edge of weight < m
\* removed: no edge of weight < m is in the subgraph, and a node reached only
\* through such edges is in neither the path nor the subgraph.
C12_FilteredIsTraverseOfHeavyEdges ==
    last.op = "traverse_filtered"
        => LET start == last.args[1]
               depth == last.args[2]
               m == last.args[3]
               heavy == WithoutLightEdges(G, m)
           IN /\ last.ret = traverse(heavy, start, depth)
              /\ last.ret # None =>
                    /\ \A i \in 1..Len(last.ret[1].subgraph) :
                          last.ret[1].subgraph[i][3] >= m
                    /\ Elems(last.ret[1].path) \subseteq
                          Within(heavy, start, Min(depth, MAX_TRAVERSAL_DEPTH))
                    /\ \A i \in 1..Len(last.ret[1].subgraph) :
                          /\ last.ret[1].subgraph[i][1] \in Elems(last.ret[1].path)
                          /\ last.ret[1].subgraph[i][2] \in
                                 Within(heavy, start, MAX_TRAVERSAL_DEPTH + 1)

\* traverse_filtered followed a heavy edge out of start and left out a node
\* that start reaches only by an edge lighter than min_weight
C12_Witness ==
    /\ last.op = "traverse_filtered"
    /\ last.ret # None
    /\ Len(last.ret[1].path) >= 2
    /\ \E t \in QueryNodeIds :
          /\ get_edge(G, last.args[1], t) # None
          /\ get_edge(G, last.args[1], t)[1] < last.args[3]
          /\ t \notin Elems(last.ret[1].path)
          /\ \A i \in 1..Len(last.ret[1].subgraph) :
                /\ last.ret[1].subgraph[i][1] # t
                /\ last.ret[1].subgraph[i][2] # t

\* C13: traverse_dfs(start, depth) returns a path without duplicates whose set
\* of nodes is the set of nodes of the traverse(start, depth) path, i.e. all
\* the nodes within min(depth, MAX_TRAVERSAL_DEPTH) hops of start.
C13_DfsVisitsBfsSet ==
    (last.op = "traverse_dfs" /\ last.ret # None)
        => LET start == last.args[1]
               depth == last.args[2]
               path == last.ret[1].path
           IN /\ \A i \in 1..Len(path) : \A j \in 1..Len(path) :
                    i < j => path[i] # path[j]
              /\ Elems(path) = Elems(traverse(G, start, depth)[1].path)
              /\ Elems(path) = Within(G, start, Min(depth, MAX_TRAVERSAL_DEPTH))

\* the NodeIds that every element of ns has an edge to
CommonOutNeighbours(g, ns) ==
    {t \in NodeIds : \A i \in 1..Len(ns) : get_edge(g, ns[i], t) # None}

\* intersect(ns) is, in ascending order and without duplicates, exactly the
\* common out-neighbours of ns, and is empty for empty ns and when an element
\* has no out-edges
IntersectIsCommonNeighbours ==
    last.op = "intersect"
        => LET ns == last.args[1]
               r == last.ret
           IN /\ StrictlyAscending(r)
              /\ Elems(r) = (IF ns = <<>> THEN {} ELSE CommonOutNeighbours(G, ns))
              /\ (\E i \in 1..Len(ns) : neighbors(G, ns[i]) = <<>>) => r = <<>>

\* C14: intersect(nodes) returns, ascending and without duplicates, exactly
\* the NodeIds that are an out-neighbour of every element of nodes; it is
\* empty when nodes is empty, when an element has no out-edges, or when an
\* element is not in the graph.
C14_IntersectCommonNeighbours ==
    /\ IntersectIsCommonNeighbours
    /\ last.op = "intersect"
          => ((\E i \in 1..Len(last.args[1]) : ~contains_node(G, last.args[1][i]))
                 => last.ret = <<>>)

\* end is reached from start along stored edges (in any number of hops)
Reachable(g, start, end) == end \in Within(g, start, U64_MAX + 1)

\* path leads from start to end along stored edges
IsDirectedPath(g, path, start, end) ==
    /\ path # <<>>
    /\ path[1] = start
    /\ path[Len(path)] = end
    /\ \A i \in 1..(Len(path) - 1) : get_edge(g, path[i], path[i + 1]) # None

\* C15: strongest_path(start, end) returns Some(path) exactly when both
\* endpoints exist and end is reached from start along directed edges (the
\* path then leads from start to end); it returns Some([start]) when
\* start = end exists, and None otherwise.
C15_StrongestPathSomeIffReachable ==
    last.op = "strongest_path"
        => LET start == last.args[1]
               end == last.args[2]
           IN /\ (last.ret # None) <=>
                    (/\ BTreeHas(nodes, start)
                     /\ BTreeHas(nodes, end)
                     /\ Reachable(G, start, end))
              /\ (start = end /\ BTreeHas(nodes, start)) => last.ret = Some(<<start>>)
              /\ last.ret # None => IsDirectedPath(G, last.ret[1], start, end)

\* on a chain start -> b -> end strongest_path returned the three nodes, and
\* start is not reached back from end
C15_Witness ==
    /\ last.op = "strongest_path"
    /\ last.ret # None
    /\ Len(last.ret[1]) = 3
    /\ get_edge(G, last.args[1], last.args[2]) = None
    /\ ~Reachable(G, last.args[2], last.args[1])
    /\ strongest_path(G, last.args[2], last.args[1]) = None

\* the exact cost i64::MAX - max(weight, 0) of the stored edge from -> to
EdgeCost(g, from, to) ==
    LET weight == get_edge(g, from, to)[1]
    IN I64_WIDE_MAX - (IF weight > 0 THEN weight ELSE 0)

\* the exact sum of the edge costs along path[i..]
RECURSIVE PathCost(_, _, _)
PathCost(g, path, i) ==
    IF i >= Len(path) THEN 0
    ELSE EdgeCost(g, path[i], path[i + 1]) + PathCost(g, path, i + 1)

\* the directed paths from start to end that repeat no node
SimplePaths(g, start, end) ==
    {p \in UNION {[1..k -> NodeIds] : k \in 1..(U64_MAX + 1)} :
        /\ IsDirectedPath(g, p, start, end)
        /\ \A i \in 1..Len(p) : \A j \in 1..Len(p) : i < j => p[i] # p[j]}

\* C16: a path returned by strongest_path(start, end) has the least exact
\* total cost, summing i64::MAX - max(weight, 0) over its edges, among all
\* directed paths from start to end.
C16_StrongestPathMinimalCost ==
    (last.op = "strongest_path" /\ last.ret # None)
        => \A p \in SimplePaths(G, last.args[1], last.args[2]) :
               PathCost(G, last.ret[1], 1) <= PathCost(G, p, 1)

\* C17: related_subgraph(start, depth) and Compositor::related_context(graph,
\* start, depth) return exactly what traverse(start, depth) returns: None, or
\* the same path and subgraph.
C17_RelatedIsTraverse ==
    last.op \in {"related_subgraph", "related_context"}
        => last.ret = traverse(G, last.args[1], last.args[2])

\* related_context returned a path that branches, which a depth-first walk
\* lists in another order
C17_Witness ==
    /\ last.op = "related_context"
    /\ last.ret # None
    /\ Len(last.ret[1].path) >= 4
    /\ last.ret # traverse_dfs(G, last.args[1], last.args[2])

\* graphs g and h have equal node_count, equal edge_count and the same
\* get_edge result for every (from, to) pair
SameCountsAndEdges(g, h) ==
    /\ node_count(g) = node_count(h)
    /\ edge_count(g) = edge_count(h)
    /\ \A from \in NodeIds : \A to \in NodeIds : get_edge(g, from, to) = get_edge(h, from, to)

\* C18: every graph reached by insert_node, insert_edge and increment_edge
\* calls, converted to its serializable / canonical form and reconstructed
\* (Graph::from(SerializableGraph), Graph::from_canonical), has the same
\* node_count, edge_count and get_edge results as before.
C18_RoundTrip ==
    /\ SameCountsAndEdges(G, FromSerializable(ToSerializable(G)))
    /\ SameCountsAndEdges(G, from_canonical(ToCanonical(G)))

\* the round trip of a graph whose edges all join existing nodes
RoundTripWithoutDanglingEdges ==
    C1_EdgeEndpointsExist => C18_RoundTrip

\* C19: after from_canonical, and after any import_node calls, every imported
\* node is stored under its original NodeId and next_node_id is strictly
\* greater than every NodeId in the node table, so insert_node of a new
\* entity returns no NodeId that is in use.
C19_ImportAdvancesCounter ==
    /\ last.op = "import_node" =>
          lookup(G, last.args[1]) = Some(Node(last.args[1], last.args[2]))
    /\ last.op = "from_canonical" =>
          \A i \in 1..Len(last.args[1].nodes) :
              lookup(G, last.args[1].nodes[i].id) =
                  Some(Node(last.args[1].nodes[i].id, last.args[1].nodes[i].entity))
    /\ \A k \in KeySet(nodes) : next_node_id > k
    /\ \A e \in 0..(MaxEntity + 1) :
          ~BTreeHas(entity_index, e) => insert_node(G, e).ret \notin KeySet(nodes)

\* the operations that take the graph by shared reference
QueryOps ==
    {"lookup", "get_node_by_entity", "get_edge", "neighbors", "traverse",
     "traverse_filtered", "traverse_dfs", "intersect", "strongest_path",
     "related_subgraph", "node_count", "edge_count", "compose", "compose_filtered",
     "extract_path", "find_intersection", "related_context", "verify_hypothesis"}

\* C20: lookup, get_node_by_entity, get_edge, neighbors, the traversals,
\* intersect, strongest_path, related_subgraph, node_count, edge_count, every
\* Compositor operation and verify_hypothesis leave the node table, the edge
\* map, the entity index and the next-id counter unchanged, whether they
\* succeed or return None / empty.
C20_QueriesNeverMutate ==
    [][last'.op \in QueryOps
          => /\ nodes' = nodes
             /\ edges' = edges
             /\ entity_index' = entity_index
             /\ next_node_id' = next_node_id]_vars

\* verify_hypothesis found nothing in a graph that holds nodes and edges
C20_Witness ==
    /\ last.op = "verify_hypothesis"
    /\ last.ret.artifact = None
    /\ node_count(G) > 0
    /\ edge_count(G) > 0

\* C21: Compositor::extract_path(graph, start, end) is None exactly when
\* strongest_path(start, end) is None; otherwise its path is the
\* strongest_path result and its subgraph is the sequence (path[i],
\* path[i+1], get_edge(path[i], path[i+1])), len(path) - 1 edges in path
\* order (none when start = end).
C21_ExtractPathEdgesAlongPath ==
    last.op = "extract_path"
        => LET found == strongest_path(G, last.args[1], last.args[2])
           IN /\ (last.ret = None) <=> (found = None)
              /\ last.ret # None =>
                    LET path == last.ret[1].path
                        subgraph == last.ret[1].subgraph
                    IN /\ path = found[1]
                       /\ Len(subgraph) = Len(path) - 1
                       /\ \A i \in 1..(Len(path) - 1) :
                             /\ get_edge(G, path[i], path[i + 1]) # None
                             /\ subgraph[i] = <<path[i], path[i + 1],
                                                get_edge(G, path[i], path[i + 1])[1]>>
                       /\ last.args[1] = last.args[2] => subgraph = <<>>

\* extract_path returned a route of at least two hops with its edges
C21_Witness ==
    /\ last.op = "extract_path"
    /\ last.ret # None
    /\ Len(last.ret[1].path) >= 3
    /\ Len(last.ret[1].subgraph) = Len(last.ret[1].path) - 1

\* What the graph operation behind a query yields, as an Option: None when it
\* produces nothing
QueryOutcome(g, query) ==
    IF query.type = "Lookup" THEN get_node_by_entity(g, query.entity)
    ELSE IF query.type = "Traverse" THEN traverse(g, query.start, query.depth)
    ELSE IF query.type = "TraverseFiltered"
    THEN traverse_filtered(g, query.start, query.depth, query.min_weight)
    ELSE IF query.type = "StrongestPath" THEN strongest_path(g, query.start, query.end)
    ELSE IF query.type = "Intersect"
    THEN (IF intersect(g, query.nodes) = <<>> THEN None ELSE Some(intersect(g, query.nodes)))
    ELSE IF query.type = "RelatedSubgraph" THEN related_subgraph(g, query.start, query.depth)
    ELSE traverse_dfs(g, query.start, query.depth)

\* C22: for every query type, when the graph operation behind the query
\* produces nothing (unmapped entity, missing start node, no path, empty
\* intersection), verify_hypothesis returns the unverified result: no
\* artifact, confidence score 0, verified = false, empty evidence_path
C22_NothingFoundIsUnverified ==
    last.op = "verify_hypothesis"
        => (QueryOutcome(G, last.args[1]) = None
                => /\ last.ret.artifact = None
                   /\ last.ret.confidence.score = 0
                   /\ last.ret.verified = FALSE
                   /\ last.ret.evidence_path = <<>>)

\* a strongest-path query between two stored nodes that no path joins came
\* back unverified
C22_Witness ==
    /\ last.op = "verify_hypothesis"
    /\ last.args[1].type = "StrongestPath"
    /\ contains_node(G, last.args[1].start)
    /\ contains_node(G, last.args[1].end)
    /\ strongest_path(G, last.args[1].start, last.args[1].end) = None
    /\ last.ret.artifact = None
    /\ last.ret.confidence.score = 0

\* C23: in every GroundedResult of verify_hypothesis, verified holds exactly
\* when the confidence score reaches the threshold, verified implies an
\* artifact, and a non-empty evidence_path comes only with an artifact and
\* then equals the artifact's path; a failed query has no evidence path
C23_GroundedResultCoherent ==
    last.op = "verify_hypothesis"
        => /\ last.ret.verified <=> (last.ret.confidence.score >= VERIFICATION_THRESHOLD)
           /\ last.ret.verified => last.ret.artifact # None
           /\ last.ret.evidence_path # <<>>
                  => /\ last.ret.artifact # None
                     /\ last.ret.evidence_path = last.ret.artifact[1].path
           /\ QueryOutcome(G, last.args[1]) = None => last.ret.evidence_path = <<>>

\* a traversal found only its start node: an artifact and an evidence path,
\* but a score below the threshold and so not verified
C23_Witness ==
    /\ last.op = "verify_hypothesis"
    /\ last.args[1].type = "Traverse"
    /\ last.ret.artifact # None
    /\ last.ret.evidence_path # <<>>
    /\ last.ret.confidence.score < VERIFICATION_THRESHOLD
    /\ ~last.ret.verified

\* C24: a Lookup of a mapped entity returns the artifact whose path is just
\* the entity's NodeId with an empty subgraph, confidence score 100,
\* verified = true and that NodeId as the evidence_path
C24_LookupOfMappedEntity ==
    (last.op = "verify_hypothesis" /\ last.args[1].type = "Lookup"
        /\ get_node_by_entity(G, last.args[1].entity) # None)
        => LET id == get_node_by_entity(G, last.args[1].entity)[1]
           IN /\ last.ret.artifact # None
              /\ last.ret.artifact[1].path = <<id>>
              /\ last.ret.artifact[1].subgraph = <<>>
              /\ last.ret.confidence.score = 100
              /\ last.ret.verified = TRUE
              /\ last.ret.evidence_path = <<id>>

\* the lookup of the entity of the last node of a four-node graph was graded
C24_Witness ==
    /\ last.op = "verify_hypothesis"
    /\ last.args[1].type = "Lookup"
    /\ last.args[1].entity = 3
    /\ last.ret.verified
    /\ last.ret.evidence_path = <<3>>

\* the keys a cache holds
CacheKeySet(c) == {c.entries[i][1] : i \in 1..Len(c.entries)}

\* the entry a cache holds for a key
EntryOf(c, k) == BTreeGet(c.entries, k)

\* the keys the call just made removed from the cache
RemovedKeys == CacheKeySet(last.old) \ CacheKeySet(cache)

\* the call just made was an insert of an absent key into a full cache
EvictingInsert ==
    /\ last.op = "insert"
    /\ ~contains(last.old, last.args[1])
    /\ len(last.old) >= last.old.max_size

\* C25: eviction selects the least recently accessed entries. An insert of
\* an absent key into a full cache removes exactly min(eviction_batch, len)
\* entries; every survivor has a last_access at least that of every removed
\* entry, and of entries with equal last_access the smaller keys go first.
\* An entry that get touched at a clock value after another entry's
\* last_access is never evicted before that other entry.
C25_EvictsLeastRecentlyAccessed ==
    /\ EvictingInsert
        => LET old == last.old
               survivors == CacheKeySet(old) \cap CacheKeySet(cache)
           IN /\ Cardinality(RemovedKeys) = Min(old.eviction_batch, len(old))
              /\ \A s \in survivors, r \in RemovedKeys :
                    /\ EntryOf(old, s).last_access >= EntryOf(old, r).last_access
                    /\ EntryOf(old, s).last_access = EntryOf(old, r).last_access => r < s
    /\ \A a \in CacheKeySet(cache), b \in CacheKeySet(cache), kv \in CacheInserts :
          LET touched == get(cache, a).cache
              after == insert(touched, kv[1], kv[2])
          IN (/\ a # b
              /\ EntryOf(touched, a).last_access > EntryOf(cache, b).last_access
              /\ a \notin CacheKeySet(after))
                 => b \notin CacheKeySet(after)

\* a full cache of two entries, the smaller key touched again after the
\* larger one was stored, lost the larger key alone to an insert
C25_Witness ==
    /\ EvictingInsert
    /\ len(last.old) = 2
    /\ Cardinality(RemovedKeys) = 1
    /\ \E s \in CacheKeySet(last.old) \cap CacheKeySet(cache), r \in RemovedKeys :
          /\ s < r
          /\ EntryOf(last.old, s).access_count >= 2
          /\ EntryOf(last.old, s).last_access > EntryOf(last.old, r).last_access

\* C26: insert evicts exactly when the key is absent and len >= max_size at
\* the time of the call, and evicts before it stores: the new entry is in the
\* cache afterwards and len is the old len less the evicted entries plus one.
\* An insert of a present key, even into a full cache, removes no entry,
\* leaves len unchanged, replaces the value, sets last_access to the new
\* clock value and increases access_count by 1 (saturating at u64::MAX)
C26_InsertEvictsOnlyForNewKeyWhenFull ==
    last.op = "insert"
        => LET old == last.old
               k == last.args[1]
               v == last.args[2]
           IN /\ (RemovedKeys # {}) <=> (~contains(old, k) /\ len(old) >= old.max_size)
              /\ contains(cache, k)
              /\ EntryOf(cache, k).value = v
              /\ EntryOf(cache, k).last_access = cache.logical_clock
              /\ ~contains(old, k)
                    => /\ len(cache) = len(old) - Cardinality(RemovedKeys) + 1
                       /\ EntryOf(cache, k).access_count = 1
              /\ contains(old, k)
                    => /\ CacheKeySet(cache) = CacheKeySet(old)
                       /\ len(cache) = len(old)
                       /\ cache.logical_clock = U64SatInc(old.logical_clock)
                       /\ EntryOf(cache, k).access_count
                              = U64SatInc(EntryOf(old, k).access_count)

\* a full cache of two entries took a new value for a key it held, and kept
\* both entries
C26_Witness ==
    /\ last.op = "insert"
    /\ contains(last.old, last.args[1])
    /\ len(last.old) = 2
    /\ len(last.old) >= last.old.max_size
    /\ EntryOf(last.old, last.args[1]).value # last.args[2]
    /\ EntryOf(cache, last.args[1]).value = last.args[2]
    /\ len(cache) = 2

\* C27: get(k) of a present key returns the stored value, increases hits by
\* 1, sets the entry's last_access to the new clock value and increases its
\* access_count by 1 (both counters saturating at u64::MAX), and leaves
\* misses and every other entry unchanged; get(k) of an absent key returns
\* None, increases misses by 1, leaves hits unchanged and creates, removes
\* or modifies no entry
C27_GetHitAndMiss ==
    last.op = "get"
        => LET old == last.old
               k == last.args[1]
           IN IF contains(old, k)
              THEN /\ last.ret = Some(EntryOf(old, k).value)
                   /\ cache.hits = U64SatInc(old.hits)
                   /\ cache.misses = old.misses
                   /\ CacheKeySet(cache) = CacheKeySet(old)
                   /\ EntryOf(cache, k).value = EntryOf(old, k).value
                   /\ EntryOf(cache, k).last_access = U64SatInc(old.logical_clock)
                   /\ EntryOf(cache, k).last_access = cache.logical_clock
                   /\ EntryOf(cache, k).access_count = U64SatInc(EntryOf(old, k).access_count)
                   /\ \A j \in CacheKeySet(old) \ {k} : EntryOf(cache, j) = EntryOf(old, j)
              ELSE /\ last.ret = None
                   /\ cache.misses = U64SatInc(old.misses)
                   /\ cache.hits = old.hits
                   /\ cache.entries = old.entries

\* a hit on one of two entries moved that entry's last_access and
\* access_count and the hit counter
C27_Witness ==
    /\ last.op = "get"
    /\ contains(last.old, last.args[1])
    /\ len(last.old) = 2
    /\ cache.hits = last.old.hits + 1
    /\ EntryOf(cache, last.args[1]).last_access > EntryOf(last.old, last.args[1]).last_access
    /\ EntryOf(cache, last.args[1]).access_count
           = EntryOf(last.old, last.args[1]).access_count + 1

\* C28: peek is side-effect-free. For a present and for an absent key it
\* leaves logical_clock, hits, misses and every entry's value, last_access
\* and access_count unchanged, so that an insert after the peek evicts what
\* it would have evicted without the peek
C28_PeekHasNoEffect ==
    last.op = "peek"
        => /\ last.ret = (IF contains(last.old, last.args[1])
                          THEN Some(EntryOf(last.old, last.args[1]).value) ELSE None)
           /\ cache.logical_clock = last.old.logical_clock
           /\ cache.hits = last.old.hits
           /\ cache.misses = last.old.misses
           /\ cache.entries = last.old.entries
           /\ \A kv \in CacheInserts :
                 CacheKeySet(insert(cache, kv[1], kv[2]))
                     = CacheKeySet(insert(last.old, kv[1], kv[2]))

\* the least recently accessed of the two entries of a full cache was
\* peeked at
C28_Witness ==
    /\ last.op = "peek"
    /\ len(cache) = 2
    /\ len(cache) >= cache.max_size
    /\ cache.eviction_batch = 1
    /\ contains(cache, last.args[1])
    /\ \A j \in CacheKeySet(cache) \ {last.args[1]} :
          EntryOf(cache, j).last_access > EntryOf(cache, last.args[1]).last_access

\* C29: the logical clock increases by exactly 1, saturating at u64::MAX, on
\* every insert and every get, hit or miss, and no other operation changes
\* it; so it never decreases, and every entry's last_access is at most
\* logical_clock
C29_ClockTicksOnInsertAndGetOnly ==
    /\ last.op \in {"insert", "get"}
          => cache.logical_clock = U64SatInc(last.old.logical_clock)
    /\ last.op \in {"peek", "remove", "clear", "contains", "len", "stats"}
          => cache.logical_clock = last.old.logical_clock
    /\ last.op # "new" => cache.logical_clock >= last.old.logical_clock
    /\ \A k \in CacheKeySet(cache) : EntryOf(cache, k).last_access <= cache.logical_clock

\* a miss ticked the clock of a cache that holds an entry
C29_Witness ==
    /\ last.op = "get"
    /\ last.ret = None
    /\ len(cache) >= 1
    /\ cache.logical_clock = last.old.logical_clock + 1

\* C30: the statistics are cumulative. hits and misses never decrease;
\* clear removes every entry and leaves hits, misses and logical_clock
\* unchanged; remove and insert do not change hits or misses; and while
\* neither counter has saturated, hits + misses is the number of get calls
\* made since construction
C30_StatisticsCumulative ==
    /\ last.op # "new"
          => /\ cache.hits >= last.old.hits
             /\ cache.misses >= last.old.misses
    /\ last.op = "clear"
          => /\ len(cache) = 0
             /\ cache.hits = last.old.hits
             /\ cache.misses = last.old.misses
             /\ cache.logical_clock = last.old.logical_clock
    /\ last.op \in {"remove", "insert"}
          => /\ cache.hits = last.old.hits
             /\ cache.misses = last.old.misses
    /\ (cache.hits < U64_MAX /\ cache.misses < U64_MAX)
          => cache.hits + cache.misses = get_calls

\* a cache that had entries, hits and misses was cleared
C30_Witness ==
    /\ last.op = "clear"
    /\ len(last.old) >= 1
    /\ len(cache) = 0
    /\ cache.hits >= 1
    /\ cache.misses >= 1
    /\ cache.hits + cache.misses = get_calls

\* C31: hit_rate_percent is floor(hits * 100 / (hits + misses)) for every
\* pair of counter values, 0 when hits + misses = 0, and within 0..100, also
\* for counters so large that hits * 100 or hits + misses saturates
C31_HitRateIsFlooredRatio ==
    last.op = "hit_rate_percent"
        => LET h == cache.hits
               m == cache.misses
           IN /\ last.ret[1] = (IF h + m = 0 THEN 0 ELSE (h * 100) \div (h + m))
              /\ last.ret[1] \in 0..100

\* a comes before b in the order by start, then depth, then min_weight, no
\* filter coming before any filter value
KeyLexLess(a, b) ==
    \/ a.start < b.start
    \/ a.start = b.start /\ a.depth < b.depth
    \/ /\ a.start = b.start
       /\ a.depth = b.depth
       /\ \/ a.min_weight = None /\ b.min_weight # None
          \/ a.min_weight # None /\ b.min_weight # None /\ a.min_weight[1] < b.min_weight[1]

\* C32: TraversalCacheKey is totally ordered lexicographically by start, then
\* depth, then min_weight, no filter before any filter value; the comparison
\* is antisymmetric and transitive, two keys compare Equal exactly when they
\* are == on all three fields, and the keys of a TraversalCache iterate in
\* that order whatever the order they were inserted in
C32_TraversalKeysTotallyOrdered ==
    /\ last.op = "cmp"
          => LET a == last.args[1]
                 b == last.args[2]
                 ret == last.ret[1]
             IN /\ (ret = "Less") <=> KeyLexLess(a, b)
                /\ (ret = "Greater") <=> KeyLexLess(b, a)
                /\ (ret = "Equal") <=> eq(a, b)
                /\ (ret = "Equal") <=> (a.start = b.start /\ a.depth = b.depth
                                        /\ a.min_weight = b.min_weight)
                /\ (ret = "Less") <=> (cmp(b, a) = "Greater")
                /\ (ret = "Equal") <=> (cmp(b, a) = "Equal")
                /\ \A c \in TraversalKeys :
                      (ret = "Less" /\ cmp(b, c) = "Less") => cmp(a, c) = "Less"
    /\ last.op \in {"insert", "keys"}
          => /\ \A i \in 1..Len(keys(cache)), j \in 1..Len(keys(cache)) :
                   i < j => KeyLexLess(keys(cache)[i], keys(cache)[j])
             /\ last.op = "insert" => \E i \in 1..Len(keys(cache)) : keys(cache)[i] = last.args[1]
             /\ last.op = "insert" => Len(keys(cache)) = len(last.old) + 1

\* the key without a filter was inserted last, into a cache that held the
\* same start and depth with two filter values, and iterates first
C32_Witness ==
    /\ last.op = "insert"
    /\ len(cache) = 3
    /\ last.args[1] = keys(cache)[1]
    /\ keys(cache)[1].min_weight = None
    /\ keys(cache)[2].min_weight # None
    /\ keys(cache)[3].min_weight # None
    /\ keys(cache)[2].start = keys(cache)[1].start
    /\ keys(cache)[3].depth = keys(cache)[1].depth
    /\ EntryOf(cache, keys(cache)[3]).last_access < EntryOf(cache, keys(cache)[2]).last_access

\* C33: while a GraphReadGuard is alive no mutation is observable through
\* it: no insert_node, insert_edge, increment_edge or import_node takes
\* effect between acquisition and release, and node_count(), edge_count()
\* and every node and edge read through the guard are those of the graph at
\* acquisition
C33_GuardSeesGraphAtAcquisition ==
    /\ \A i \in 1..Len(guards) : guards[i] = G
    /\ guards # <<>>
          => last.op \notin {"insert_node", "insert_edge", "increment_edge", "import_node"}
    /\ last.op = "guard.node_count" => last.ret[1] = node_count(guards[last.args[1]])
    /\ last.op = "guard.edge_count" => last.ret[1] = edge_count(guards[last.args[1]])
    /\ last.op = "guard.graph"
          => /\ last.ret[1].nodes = guards[last.args[1]].nodes
             /\ last.ret[1].edges = guards[last.args[1]].edges

\* the edges of a graph of two nodes and an edge were counted through a
\* guard
C33_Witness ==
    /\ guards # <<>>
    /\ last.op = "guard.edge_count"
    /\ last.ret[1] >= 1
    /\ node_count(G) >= 2

\* C34: Signal::try_new returns Ok exactly when the attribute has 1..256
\* bytes and the value has 1..65536 bytes; otherwise it returns
\* Err(Error::Server) without a Signal, and the error is about the attribute
\* whenever the attribute is invalid, also when the value is invalid too
C34_TryNewValidatesLengths ==
    last.op = "try_new" =>
        LET e == last.args[1]
            a == last.args[2]
            v == last.args[3]
            attribute_ok == 1 <= a /\ a <= ATTRIBUTE_MAX_LEN
            value_ok == 1 <= v /\ v <= VALUE_MAX_LEN
        IN /\ last.ret.ok <=> (attribute_ok /\ value_ok)
           /\ last.ret.ok => last.ret = Ok(Signal(e, a, v))
           /\ ~last.ret.ok =>
                /\ DOMAIN last.ret = {"ok", "error"}
                /\ last.ret.error.kind = "Server"
                /\ ~attribute_ok => last.ret.error.msg = <<"Attribute length", a, "out of valid range 1..=256">>
                /\ attribute_ok => last.ret.error.msg = <<"Value length", v, "out of valid range 1..=65536">>

\* try_new was given an empty attribute together with a value one byte too long
C34_Witness ==
    /\ last.op = "try_new"
    /\ last.args[2] = 0
    /\ last.args[3] = VALUE_MAX_LEN + 1
    /\ ~last.ret.ok

\* C35: ingest and query return Err(Error::Server(msg)) for every decoded
\* response whose success field is false, and Ok(response) only for
\* responses whose success field is true
C35_FailureIsServerError ==
    (last.op \in {"ingest", "query"} /\ last.args[2].kind = "decoded") =>
        LET resp == last.args[2].resp
        IN /\ ~resp.success => (~last.ret.ok /\ last.ret.error.kind = "Server")
           /\ last.ret.ok => (resp.success /\ last.ret.value = resp)

\* C36: capacity invariant. Whatever size and batch size the cache was
\* constructed with, 0 included, and after any sequence of insert, get, peek,
\* remove and clear: max_size >= 1, eviction_batch >= 1, and the cache never
\* holds more than max_size entries
C36_CapacityInvariant ==
    /\ cache.max_size >= 1
    /\ cache.eviction_batch >= 1
    /\ len(cache) <= cache.max_size

\* a cache constructed with size 0 and batch size 0 is full of one entry
\* after an insert that had to evict another one
C36_Witness ==
    /\ EvictingInsert
    /\ cache.max_size = 1
    /\ cache.eviction_batch = 1
    /\ len(cache) = cache.max_size

\* a get of this key on the cache as it is now finds nothing and is counted
\* as a miss
CountedAsMiss(key) ==
    /\ get(cache, key).ret = None
    /\ get(cache, key).cache.misses = U64SatInc(cache.misses)
    /\ get(cache, key).cache.hits = cache.hits

\* C37: immediately after insert(k, v) the cache contains k and peek(k) is v,
\* also when the insert evicted entries (the key being inserted is never
\* among the evicted); immediately after remove(k) or clear() the cache does
\* not contain k, and a following get(k) is counted as a miss
C37_InsertedPresentRemovedAbsent ==
    /\ last.op = "insert"
        => /\ contains(cache, last.args[1])
           /\ peek(cache, last.args[1]) = Some(last.args[2])
           /\ last.args[1] \notin RemovedKeys
    /\ last.op = "remove"
        => /\ ~contains(cache, last.args[1])
           /\ CountedAsMiss(last.args[1])
    /\ last.op = "clear"
        => \A key \in CacheKeys :
              /\ ~contains(cache, key)
              /\ CountedAsMiss(key)

\* an insert of a new key into a full cache evicted an entry, and the new
\* key is there with its value
C37_Witness ==
    /\ EvictingInsert
    /\ RemovedKeys # {}
    /\ peek(cache, last.args[1]) = Some(last.args[2])

\* no NodeId occurs twice in path
IsSimple(path) ==
    \A i \in 1..Len(path) : \A j \in 1..Len(path) : i < j => path[i] # path[j]

\* subgraph holds, hop by hop, the edge of every consecutive pair of path
EveryHopCollected(g, path, subgraph) ==
    /\ Len(subgraph) = Len(path) - 1
    /\ \A i \in 1..(Len(path) - 1) :
          subgraph[i] = <<path[i], path[i + 1], get_edge(g, path[i], path[i + 1])[1]>>

\* C38: every path returned by strongest_path(start, end) is a simple
\* directed path of the graph: it begins with start, ends with end, repeats
\* no NodeId, and get_edge is Some for every consecutive pair; so
\* Compositor::extract_path collects one edge for every hop of its path
C38_StrongestPathIsSimpleDirectedPath ==
    /\ (last.op = "strongest_path" /\ last.ret # None)
        => /\ IsDirectedPath(G, last.ret[1], last.args[1], last.args[2])
           /\ IsSimple(last.ret[1])
    /\ (last.op = "extract_path" /\ last.ret # None)
        => /\ IsDirectedPath(G, last.ret[1].path, last.args[1], last.args[2])
           /\ IsSimple(last.ret[1].path)
           /\ EveryHopCollected(G, last.ret[1].path, last.ret[1].subgraph)

\* extract_path returned a path of three nodes with both its hops collected,
\* in a graph that also holds an edge from end back to start
C38_Witness ==
    /\ last.op = "extract_path"
    /\ last.ret # None
    /\ Len(last.ret[1].path) = 3
    /\ Len(last.ret[1].subgraph) = 2
    /\ get_edge(G, last.args[2], last.args[1]) # None

\* lookup knows every NodeId of ids
AllExist(g, ids) == \A i \in 1..Len(ids) : lookup(g, ids[i]) # None

\* lookup knows both endpoints of every edge of subgraph
EndpointsExist(g, subgraph) ==
    \A i \in 1..Len(subgraph) :
        /\ lookup(g, subgraph[i][1]) # None
        /\ lookup(g, subgraph[i][2]) # None

\* C39: query results reference only existing nodes. In a graph built by
\* insert_node, insert_edge and increment_edge, lookup(id) is Some for every
\* NodeId in the path and every endpoint in the subgraph of an Artifact
\* returned by traverse, traverse_filtered, traverse_dfs or related_subgraph,
\* and for every NodeId returned by neighbors, intersect or strongest_path
C39_ResultsReferenceExistingNodes ==
    /\ (last.op \in {"traverse", "traverse_filtered", "traverse_dfs", "related_subgraph"}
            /\ last.ret # None)
        => /\ AllExist(G, last.ret[1].path)
           /\ EndpointsExist(G, last.ret[1].subgraph)
    /\ last.op = "neighbors"
        => \A i \in 1..Len(last.ret) : lookup(G, last.ret[i][1]) # None
    /\ last.op = "intersect" => AllExist(G, last.ret)
    /\ (last.op = "strongest_path" /\ last.ret # None) => AllExist(G, last.ret[1])

\* what the loop of strongest_path(start, end) leaves behind when it stops
LoopOutcome(g, start, end) ==
    strongest_path_loop(g, end,
        [dist |-> BTreeInsert(BTreeEmpty, start, 0),
         prev |-> BTreeEmpty, visited |-> {}, iterations |-> 0])

\* C40: traverse, traverse_filtered, traverse_dfs and strongest_path
\* terminate on every finite graph, cycles and self-loops included: a
\* traversal enqueues or recurses into each node at most once, so its path
\* repeats no node; every pass through the loop of strongest_path either
\* stops or marks one node visited that was not, so the loop runs at most
\* node_count + 1 times
C40_LoopsAreBounded ==
    /\ (last.op \in {"traverse", "traverse_filtered", "traverse_dfs"} /\ last.ret # None)
        => IsSimple(last.ret[1].path)
    /\ (/\ last.op = "strongest_path"
        /\ contains_node(G, last.args[1])
        /\ contains_node(G, last.args[2])
        /\ last.args[1] # last.args[2])
        => LET st == LoopOutcome(G, last.args[1], last.args[2])
           IN /\ st.iterations = Cardinality(st.visited) + 1
              /\ st.iterations <= node_count(G) + 1

====
